---- MODULE Spec2Model ----
(***************************************************************************)
(* Verification model of the hongbai multiplayer NES relay:               *)
(*   - the HTTP signaling service backed by a key-value store             *)
(*     (src/aliyun-edge/signaling.js and its variant src/unnamed/part_003) *)
(*   - the bounded store-and-forward mailbox (pushMessage / popMessages)  *)
(*   - the WebSocket client's reconnection controller (part_005)          *)
(*   - the WebRTC negotiation handlers (js/room.js, part_005)             *)
(*   - the frame codec (part_007)                                         *)
(* Each component has its own specification over the shared variables;    *)
(* the variables of the other components stay at their initial values.    *)
(***************************************************************************)
EXTENDS Integers, Sequences, FiniteSets, TLC

VARIABLES
    \* ---- signaling service (EdgeKV namespace 'nes-signal') ----
    variant,     \* which source variant of the service runs: "edge" | "p003"
    rooms,       \* kv entries room:<code>  : NoRoom or the room record
    msgs,        \* kv entries msg:<code>:<seat> : the queue (<<>> = key absent)
    resp,        \* the JSON response of the last request
    awaiting,    \* history: guest mailboxes that have not been read since the host left
    sentLog,     \* history: per mailbox, the messages pushed since the key was last deleted
    sendCount,   \* history: number of relay sends so far (payload ordinal)
    joinCount,   \* history: per code, successful joins since the create (-1 once a leave reached the room)
    reqParity    \* history: parity of the number of requests the mailbox specification served

sigVars == <<variant, rooms, msgs, resp, awaiting, sentLog, sendCount, joinCount, reqParity>>

VARIABLES
    \* ---- RoomManager, WebSocket version (src/unnamed/part_005, first class) ----
    roomCode,             \* this.roomCode ("" = null)
    isHost,               \* this.isHost
    myPlayerNum,          \* this.myPlayerNum
    ws,                   \* the socket: "none" | "connecting" | "open" | "closing" | "closed"
    connCtx,              \* who awaits connectWebSocket(): "none" | "create" | "join" | "reconnect"
    awaitingReply,        \* request sent and not answered by the server: "none" | "create" | "join"
    callResult,           \* createRoom()/joinRoom() promise: "none" | "pending" | "ok" | "error" | "timeout" | "connfail"
    wsReconnectAttempts,  \* this.wsReconnectAttempts
    reconnectTimer,       \* delay in ms of the pending reconnect timer (0 = none pending)
    lastWsSent,           \* type of the last message passed to ws.send
    lastWsData,           \* that message's roomCode and playerNum fields ("" / 0 = field absent)
    sinceSent,            \* ms since createRoom()/joinRoom() sent its request and armed its timer
    delayLog,             \* history: delays scheduled since the socket last opened
    attemptsMade,         \* history: reconnect attempts started since the socket last opened
    lossErrors            \* history: terminal 'error' events emitted since the socket last opened

wsVars == <<roomCode, isHost, myPlayerNum, ws, connCtx, awaitingReply, callResult,
            wsReconnectAttempts, reconnectTimer, lastWsSent, lastWsData, sinceSent,
            delayLog, attemptsMade, lossErrors>>

VARIABLES
    \* ---- RoomManager: WebRTC negotiation (js/room.js and both classes of part_005) ----
    clientKind,        \* which RoomManager runs: "roomjs" | "ws" | "poll"
    peerConnections,   \* this.peerConnections: per seat "none" or the connection's state
    sigOut,            \* the last negotiation message handed to the signaling transport
    handled,           \* history: the last signaling message the message handler was given
    escaped,           \* history: that handler's promise rejected (the exception escaped it)
    candidateDropped   \* history: it was an ICE candidate that was not added to a connection

negVars == <<clientKind, peerConnections, sigOut, handled, escaped, candidateDropped>>

VARIABLES
    \* ---- NESEmulator: frame codec (host encodes, guest decodes) ----
    hostLast,      \* the host emulator's lastFrameBuffer (NoBuffer = null)
    recvLast,      \* the guest emulator's lastFrameBuffer (NoBuffer = null)
    frameData,     \* the frame on the data channel, NoFrame when there is none
    frameRaster,   \* history: the raster the last frame put on the channel encodes
    frameChanged,  \* history: where the raster differed from the host's previous one, for a diff frame on the channel
    shownNote,     \* history of the last decode: whether a buffer was retained, the pairs in the frame
                   \* and how many of them had an index outside the raster
    shown,         \* the buffer the last decompressFrame call returned (NoBuffer before any)
    shownType      \* history: the type of the last frame decoded

codecVars == <<hostLast, recvLast, frameData, frameRaster, frameChanged, shownNote, shown, shownType>>

VARIABLES
    \* ---- RoomManager: latency measurement over the data channels ----
    now,             \* Date.now() in ms
    dataChannels,    \* this.dataChannels: per peer seat "none" or "open"
    pingTimestamps,  \* this.pingTimestamps: the seats that have an entry, with its value
    latencies,       \* this.latencies: the seats that have an entry, with its value
    pongs,           \* pong messages on their way back: per seat the timestamp echoed
    got,             \* the seat and the result of a getLatency(seat) call made in the state as it is
    lastPong         \* history: the seat and the age of the ping of the last pong handled

pingVars == <<now, dataChannels, pingTimestamps, latencies, pongs, got, lastPong>>

VARIABLES
    \* ---- the signaling service serving requests concurrently ----
    reqs,           \* per request slot: the handler running in it, its position and its locals
    reqCount,       \* history: requests started so far
    closed,         \* history: codes whose record a host leave deleted, with no create since
    returned,       \* history: payload ordinals of the sent messages some receive has returned
    returnedTwice,  \* history: those that more than one receive has returned
    seated,         \* history: the seats a join has answered success with
    seen            \* history: the seats whose player-joined a receive of seat 1 has returned

raceVars == <<reqs, reqCount, closed, returned, returnedTwice, seated, seen>>

VARIABLES
    \* ---- the store's expiry of records ----
    roomAge,        \* per code: seconds since the room record was last written (capped)
    queueAge        \* per mailbox key: seconds since the queue was last written (capped)

ttlVars == <<roomAge, queueAge>>

VARIABLES
    \* ---- the polling client's timer callbacks ----
    mailbox,        \* the messages waiting in this client's mailbox at the service
    callbacks,      \* per invocation of the interval callback: where it is and the batch it holds
    polls           \* polls answered so far

pollVars == <<mailbox, callbacks, polls>>

VARIABLES
    \* ---- the WebSocket client: what it did with the last server message ----
    lastMessage,    \* history: the message received in the last step and its handleWsMessage calls
    closedNotice    \* history: 'room-closed' was processed and the client has not left or joined since

memberVars == <<lastMessage, closedNotice>>

VARIABLES
    \* ---- a frame stream from the first frame on ----
    oddChanged      \* history: the odd indices a diff frame has carried since the last full frame

streamVars == <<oddChanged>>

VARIABLES
    \* ---- the in-memory WebSocket signaling server (src/unnamed/part_004) ----
    memRooms,       \* rooms: Map roomCode -> { hostWs, guests, players }
    wsToRoom,       \* wsToRoom: Map ws -> { roomCode, playerNum }
    readyState,     \* per server-side socket: "none" (not accepted), "open", "closing", "closed"
    disconnected    \* sockets for which handleDisconnect has run

serverVars == <<memRooms, wsToRoom, readyState, disconnected>>

vars == <<sigVars, wsVars, negVars, codecVars, pingVars, raceVars, ttlVars, pollVars, memberVars, streamVars, serverVars>>

\* ------------------------------------------------------------------------
\* Bounds of the model
\* ------------------------------------------------------------------------
MaxPending == 1       \* join and send are issued while fewer messages are pending, leave while no more
MaxSends == 52        \* relay sends in the mailbox specification
MaxClock == 41        \* the clock stops at this many ms
FrameSize == 4        \* pixels in a raster (the program's rasters have 256 * 240)

\* ------------------------------------------------------------------------
\* Program constants
\* ------------------------------------------------------------------------
QueueMax == 50        \* if (messages.length > 50) messages.shift()
maxReconnectAttempts == 5
BaseDelay == 1000     \* 1000 * Math.pow(2, attempts - 1)
MaxDelay == 10000     \* Math.min(..., 10000)
ReplyTimeout == 5000  \* part_005 createRoom / joinRoom: setTimeout(..., 5000)
JoinTimeoutRoomJs == 15000  \* js/room.js joinRoom: setTimeout(..., 15000)

Codes == {"ROOM01"}
Seats == 1..4
GuestSeats == 2..4
Ids == {"idA", "idB"}        \* values generateId() may return for a host token
GuestIds == {"idA"}          \* the token of a guest: stored, never read back by the service
Variants == {"edge", "p003"}
NoRoom == [exists |-> FALSE, hostId |-> "", players |-> <<>>, ids |-> [s \in GuestSeats |-> ""]]

\* ------------------------------------------------------------------------
\* Helpers on sequences
\* ------------------------------------------------------------------------
Range(s) == {s[i] : i \in 1..Len(s)}

includes(s, x) == \E i \in 1..Len(s) : s[i] = x

\* mutant: the predicate is inverted, filter(p => p === x)
filterKeep(s, x) == SelectSeq(s, LAMBDA p : p = x)

RECURSIVE filterOut(_, _)
\* Array.prototype.filter(p => p !== x)
filterOut(s, x) ==
    IF s = <<>> THEN <<>>
    ELSE IF Head(s) = x THEN filterOut(Tail(s), x)
         ELSE <<Head(s)>> \o filterOut(Tail(s), x)

LastN(s, n) == IF Len(s) <= n THEN s ELSE SubSeq(s, Len(s) - n + 1, Len(s))

\* ------------------------------------------------------------------------
\* Messages.  Every message is a record of the same shape; a field the
\* source leaves out is 0.
\* ------------------------------------------------------------------------
Msg(t, p, f, n) == [type |-> t, playerNum |-> p, fromPlayer |-> f, n |-> n]

PlayerJoinedMsg(p) == Msg("player-joined", p, 0, 0)
PlayerLeftMsg(p) == Msg("player-left", p, 0, 0)
\* what the host's leave pushes to every guest
HostLeftMsg(v) == IF v = "edge" THEN Msg("error", 0, 0, 0) ELSE Msg("room-closed", 0, 0, 0)
\* the relay requests clients issue in the service specification: <<fromPlayer, type>>
Relays == {<<1, "offer">>, <<2, "ice-candidate">>}

\* ------------------------------------------------------------------------
\* pushMessage / popMessages on one queue value
\* ------------------------------------------------------------------------
\* mutant: the bound drops the newest message (pop) instead of the oldest (shift)
pushMessageDropNewest(q, m) ==
    LET appended == Append(q, m)
    IN IF Len(appended) > QueueMax THEN SubSeq(appended, 1, QueueMax) ELSE appended

pushMessage(q, m) ==
    LET appended == Append(q, m)
    IN IF Len(appended) > QueueMax THEN Tail(appended) ELSE appended

\* the seat the join loop ends on: 2, 3, 4 or 5 (5 = room full)
RECURSIVE scanSeat(_, _)
scanSeat(players, n) ==
    IF includes(players, n) /\ n <= 4 THEN scanSeat(players, n + 1) ELSE n

\* mutant: 'if' instead of 'while': the scan looks at seat 2 only
AssignSeatNoLoop(players) == IF includes(players, 2) THEN 3 ELSE 2

\* mutant: the seat is the number of players plus one
AssignSeatByCount(players) == Len(players) + 1

\* mutant: the loop condition is playerNum < 4, so the scan never passes seat 4
AssignSeatLoopBelow4(players) ==
    LET n == scanSeat(players, 2) IN IF n > 4 THEN 4 ELSE n

AssignSeat(players) == scanSeat(players, 2)

Pending == LET RECURSIVE Sum(_)
               Sum(S) == IF S = {} THEN 0
                         ELSE LET k == CHOOSE k \in S : TRUE
                              IN Len(msgs[k]) + Sum(S \ {k})
           IN Sum(DOMAIN msgs)

Keys == Codes \X Seats

Resp(op, code, seat, status, m) ==
    [op |-> op, code |-> code, seat |-> seat, status |-> status, messages |-> m]

\* ------------------------------------------------------------------------
\* Initial state of the service: an empty store
\* ------------------------------------------------------------------------
SigStoreInit ==
    /\ rooms = [c \in Codes |-> NoRoom]
    /\ msgs = [k \in Keys |-> <<>>]
    /\ resp = Resp("none", "", 0, "none", <<>>)
    /\ awaiting = {}
    /\ sentLog = [k \in Keys |-> <<>>]
    /\ sendCount = 0
    /\ joinCount = [c \in Codes |-> -1]
    /\ reqParity = 0

SigInit == variant \in Variants /\ SigStoreInit

\* the service is not part of a client specification: an empty store that stays empty
SigIdle == variant = "edge" /\ SigStoreInit

\* push m to the mailbox k of store q (and record it in the history h)
Pushed(q, k, m) == [q EXCEPT ![k] = pushMessage(q[k], m)]
Logged(h, k, m) == [h EXCEPT ![k] = Append(h[k], m)]

\* ---- /api/signaling/create ----
\* mutant: the existence check is missing, create always writes a fresh record
CreateNoExistenceCheck(code, id) ==
    /\ rooms' = [rooms EXCEPT ![code] =
                    [exists |-> TRUE, hostId |-> id, players |-> <<1>>,
                     ids |-> [s \in GuestSeats |-> ""]]]
    /\ resp' = Resp("create", code, 1, "ok", <<>>)
    /\ joinCount' = [joinCount EXCEPT ![code] = 0]
    /\ UNCHANGED <<variant, msgs, awaiting, sentLog, sendCount>>

Create(code, id) ==
    /\ IF rooms[code].exists
       THEN /\ resp' = Resp("create", code, 0, "RoomExists", <<>>)
            /\ UNCHANGED <<rooms, joinCount>>
       ELSE /\ rooms' = [rooms EXCEPT ![code] =
                            [exists |-> TRUE, hostId |-> id, players |-> <<1>>,
                             ids |-> [s \in GuestSeats |-> ""]]]
            /\ resp' = Resp("create", code, 1, "ok", <<>>)
            /\ joinCount' = [joinCount EXCEPT ![code] = 0]
    /\ UNCHANGED <<variant, msgs, awaiting, sentLog, sendCount>>

\* ---- /api/signaling/join ----
\* mutant: the `room === undefined` return is missing, a join on an absent record
\* goes on to seat assignment and writes a record
JoinNoExistenceCheck(code, id) ==
    /\ Pending < MaxPending
    /\ LET room == rooms[code]
           playerNum == AssignSeat(room.players)
       IN IF playerNum > 4
          THEN /\ resp' = Resp("join", code, 0, "RoomFull", <<>>)
               /\ UNCHANGED <<rooms, msgs, sentLog, joinCount>>
          ELSE /\ rooms' = [rooms EXCEPT ![code] =
                               [room EXCEPT !.exists = TRUE,
                                            !.players = Append(room.players, playerNum),
                                            !.ids[playerNum] = id]]
               /\ msgs' = Pushed(msgs, <<code, 1>>, PlayerJoinedMsg(playerNum))
               /\ sentLog' = Logged(sentLog, <<code, 1>>, PlayerJoinedMsg(playerNum))
               /\ resp' = Resp("join", code, playerNum, "ok", Append(room.players, playerNum))
               /\ joinCount' = [joinCount EXCEPT ![code] =
                                   IF @ >= 0 THEN @ + 1 ELSE @]
    /\ UNCHANGED <<variant, awaiting, sendCount>>

Join(code, id) ==
    /\ Pending < MaxPending
    /\ LET room == rooms[code]
           playerNum == AssignSeat(room.players)
       IN IF ~room.exists
          THEN /\ resp' = Resp("join", code, 0, "RoomNotFound", <<>>)
               /\ UNCHANGED <<rooms, msgs, sentLog, joinCount>>
          ELSE IF playerNum > 4
          THEN /\ resp' = Resp("join", code, 0, "RoomFull", <<>>)
               /\ UNCHANGED <<rooms, msgs, sentLog, joinCount>>
          ELSE /\ rooms' = [rooms EXCEPT ![code] =
                               [room EXCEPT !.players = Append(room.players, playerNum),
                                            !.ids[playerNum] = id]]
               /\ msgs' = Pushed(msgs, <<code, 1>>, PlayerJoinedMsg(playerNum))
               /\ sentLog' = Logged(sentLog, <<code, 1>>, PlayerJoinedMsg(playerNum))
               /\ resp' = Resp("join", code, playerNum, "ok", Append(room.players, playerNum))
               /\ joinCount' = [joinCount EXCEPT ![code] =
                                   IF @ >= 0 THEN @ + 1 ELSE @]
    /\ UNCHANGED <<variant, awaiting, sendCount>>

\* ---- /api/signaling/send ----
\* mutant: a full queue is reported to the sender and the message is not stored
SendWithBackpressure(code, fromPlayer, toPlayer, type, n) ==
    /\ IF Len(msgs[<<code, toPlayer>>]) >= QueueMax
       THEN /\ resp' = Resp("send", code, 0, "QueueFull", <<>>)
            /\ UNCHANGED <<msgs, sentLog>>
       ELSE /\ msgs' = Pushed(msgs, <<code, toPlayer>>, Msg(type, 0, fromPlayer, n))
            /\ sentLog' = Logged(sentLog, <<code, toPlayer>>, Msg(type, 0, fromPlayer, n))
            /\ resp' = Resp("send", code, 0, "ok", <<>>)
    /\ UNCHANGED <<variant, rooms, awaiting, joinCount>>

Send(code, fromPlayer, toPlayer, type, n) ==
    /\ msgs' = Pushed(msgs, <<code, toPlayer>>, Msg(type, 0, fromPlayer, n))
    /\ sentLog' = Logged(sentLog, <<code, toPlayer>>, Msg(type, 0, fromPlayer, n))
    /\ resp' = Resp("send", code, 0, "ok", <<>>)
    /\ UNCHANGED <<variant, rooms, awaiting, joinCount>>

\* ---- /api/signaling/poll ----
\* mutant: popMessages returns the queue without deleting the key
PollNoDelete(code, playerNum) ==
    /\ resp' = Resp("poll", code, playerNum, "ok", msgs[<<code, playerNum>>])
    /\ awaiting' = awaiting \ {<<code, playerNum>>}
    /\ UNCHANGED <<variant, rooms, msgs, sentLog, sendCount, joinCount>>

Poll(code, playerNum) ==
    /\ resp' = Resp("poll", code, playerNum, "ok", msgs[<<code, playerNum>>])
    /\ msgs' = [msgs EXCEPT ![<<code, playerNum>>] = <<>>]
    /\ sentLog' = [sentLog EXCEPT ![<<code, playerNum>>] = <<>>]
    /\ awaiting' = awaiting \ {<<code, playerNum>>}
    /\ UNCHANGED <<variant, rooms, sendCount, joinCount>>

\* ---- /api/signaling/leave ----
\* the host's branch pushes the notice to every other seat of the record
NotifyGuests(q, code, players, m) ==
    [k \in Keys |-> IF k[1] = code /\ k[2] # 1 /\ includes(players, k[2])
                    THEN pushMessage(q[k], m) ELSE q[k]]

NotifyLog(h, code, players, m) ==
    [k \in Keys |-> IF k[1] = code /\ k[2] # 1 /\ includes(players, k[2])
                    THEN Append(h[k], m) ELSE h[k]]

\* src/aliyun-edge/signaling.js
LeaveEdge(code, playerNum) ==
    /\ variant = "edge"
    /\ Pending <= MaxPending
    /\ LET room == rooms[code]
       IN IF playerNum = 0 \/ ~room.exists
          THEN UNCHANGED <<rooms, msgs, sentLog, awaiting, joinCount>>
          ELSE IF playerNum = 1
          THEN /\ rooms' = [rooms EXCEPT ![code] = NoRoom]
               /\ joinCount' = [joinCount EXCEPT ![code] = -1]
               /\ msgs' = NotifyGuests(msgs, code, room.players, HostLeftMsg("edge"))
               /\ sentLog' = NotifyLog(sentLog, code, room.players, HostLeftMsg("edge"))
               /\ awaiting' = awaiting \cup
                       {k \in Keys : k[1] = code /\ k[2] # 1 /\ includes(room.players, k[2])}
          ELSE /\ rooms' = [rooms EXCEPT ![code].players = filterOut(room.players, playerNum)]
               /\ joinCount' = [joinCount EXCEPT ![code] = -1]
               /\ msgs' = Pushed(msgs, <<code, 1>>, PlayerLeftMsg(playerNum))
               /\ sentLog' = Logged(sentLog, <<code, 1>>, PlayerLeftMsg(playerNum))
               /\ UNCHANGED awaiting
    /\ resp' = Resp("leave", code, 0, "ok", <<>>)
    /\ UNCHANGED <<variant, sendCount>>

\* src/unnamed/part_003: the same, and every mailbox it touched is deleted again
Leave003(code, playerNum) ==
    /\ variant = "p003"
    /\ Pending <= MaxPending
    /\ LET room == rooms[code]
       IN IF playerNum = 0 \/ ~room.exists
          THEN UNCHANGED <<rooms, msgs, sentLog, awaiting, joinCount>>
          ELSE IF playerNum = 1
          THEN /\ rooms' = [rooms EXCEPT ![code] = NoRoom]
               /\ joinCount' = [joinCount EXCEPT ![code] = -1]
               \* pushMessage(p, room-closed) then kv.delete(msg:code:p); kv.delete(msg:code:1)
               /\ msgs' = [k \in Keys |->
                              IF k[1] = code /\ (k[2] = 1 \/ includes(room.players, k[2]))
                              THEN <<>> ELSE msgs[k]]
               /\ sentLog' = [k \in Keys |->
                              IF k[1] = code /\ (k[2] = 1 \/ includes(room.players, k[2]))
                              THEN <<>> ELSE sentLog[k]]
               /\ awaiting' = awaiting \cup
                       {k \in Keys : k[1] = code /\ k[2] # 1 /\ includes(room.players, k[2])}
          ELSE /\ rooms' = [rooms EXCEPT ![code].players = filterOut(room.players, playerNum)]
               /\ joinCount' = [joinCount EXCEPT ![code] = -1]
               /\ msgs' = [Pushed(msgs, <<code, 1>>, PlayerLeftMsg(playerNum))
                               EXCEPT ![<<code, playerNum>>] = <<>>]
               /\ sentLog' = [Logged(sentLog, <<code, 1>>, PlayerLeftMsg(playerNum))
                               EXCEPT ![<<code, playerNum>>] = <<>>]
               /\ UNCHANGED awaiting
    /\ resp' = Resp("leave", code, 0, "ok", <<>>)
    /\ UNCHANGED <<variant, sendCount>>

\* a relay send of the service specification (payload ordinal unused)
RelaySend(code, fromPlayer, toPlayer, type) ==
    /\ Pending < MaxPending
    /\ Send(code, fromPlayer, toPlayer, type, 0)
    /\ UNCHANGED sendCount

CreateRoom == \E code \in Codes, id \in Ids : Create(code, id)
JoinRoom == \E code \in Codes, id \in GuestIds : Join(code, id)
SendMessage == \E code \in Codes, r \in Relays, t \in Seats :
                  RelaySend(code, r[1], t, r[2])
PollMessages == \E code \in Codes, p \in Seats : Poll(code, p)
LeaveRoomEdge == \E code \in Codes, p \in 0..4 : LeaveEdge(code, p)
LeaveRoom003 == \E code \in Codes, p \in 0..4 : Leave003(code, p)

NoSignal == [type |-> "none", seat |-> 0]
Signal(t, p) == [type |-> t, seat |-> p]

\* the constructor: no connection, nothing sent
NegConstructed ==
    /\ clientKind = "ws"
    /\ peerConnections = [p \in Seats |-> "none"]
    /\ sigOut = NoSignal
    /\ handled = NoSignal
    /\ escaped = FALSE
    /\ candidateDropped = FALSE

NoBuffer == <<"null">>
NoFrame == [type |-> "none", data |-> <<>>]
NoNote == [retained |-> FALSE, pairs |-> 0, skipped |-> 0]

\* both emulators as constructed: this.lastFrameBuffer = null, nothing sent or shown
CodecConstructed ==
    /\ hostLast = NoBuffer
    /\ recvLast = NoBuffer
    /\ frameData = NoFrame
    /\ frameRaster = NoBuffer
    /\ frameChanged = {}
    /\ shownNote = NoNote
    /\ shown = NoBuffer
    /\ shownType = "none"

\* the seats this client has data channels to
PingSeats == {2}
Empty == [s \in {} |-> 0]
NoLatency == [absent |-> TRUE, ms |-> 0]
Latency(v) == [absent |-> FALSE, ms |-> v]
NoPong == [seat |-> 0, age |-> 0]
NotAsked == [seat |-> 0, latency |-> NoLatency]

\* the constructor: this.latencies = {}; this.pingTimestamps = {}; no channel
PingConstructed ==
    /\ now = 0
    /\ dataChannels = [s \in PingSeats |-> "none"]
    /\ pingTimestamps = Empty
    /\ latencies = Empty
    /\ pongs = Empty
    /\ got = NotAsked
    /\ lastPong = NoPong

\* an invocation slot of the interval callback that is not running
NoCallback == [pc |-> "none", no |-> 0, batch |-> <<>>, busy |-> FALSE, started |-> FALSE]

\* the polling client before startPolling()
PollConstructed ==
    /\ mailbox = <<>>
    /\ callbacks = [i \in {1, 2} |-> NoCallback]
    /\ polls = 0

\* no message was received in the last step
NoMessage == [type |-> "none", dispatches |-> 0]
Received(t, n) == [type |-> t, dispatches |-> n]

MemberConstructed ==
    /\ lastMessage = NoMessage
    /\ closedNotice = FALSE

\* no frame has been sent
StreamConstructed == oddChanged = {}

\* the in-memory server: const rooms = new Map(); const wsToRoom = new Map()
Sockets == {"wsA", "wsB", "wsC"}
MemCodes == {"ROOM01", "ROOM02"}
NoSocket == "null"
NoMemRoom == [exists |-> FALSE, hostWs |-> NoSocket, guests |-> [n \in 2..4 |-> NoSocket], players |-> {}]
NoInfo == [roomCode |-> "", playerNum |-> 0]
ServerConstructed ==
    /\ memRooms = [c \in MemCodes |-> NoMemRoom]
    /\ wsToRoom = [w \in Sockets |-> NoInfo]
    /\ readyState = [w \in Sockets |-> "none"]
    /\ disconnected = {}

\* an empty store: nothing written yet
TtlConstructed ==
    /\ roomAge = [c \in Codes |-> 0]
    /\ queueAge = [k \in Keys |-> 0]

\* a request slot with no handler running in it
Idle == [op |-> "none", pc |-> "done", player |-> 0, room |-> NoRoom, seat |-> 0,
         messages |-> <<>>, target |-> 0, todo |-> <<>>, msg |-> Msg("none", 0, 0, 0),
         status |-> "none", raced |-> FALSE]

\* the service before any request
RaceConstructed ==
    /\ reqs = [i \in {1, 2} |-> Idle]
    /\ reqCount = 0
    /\ closed = {}
    /\ returned = {}
    /\ returnedTwice = {}
    /\ seated = {}
    /\ seen = {}

\* ========================================================================
\* RoomManager (WebSocket version): connection and reconnection
\* ========================================================================
\* the roomCode and playerNum fields of a message given to sendWs
WsData(code, seat) == [roomCode |-> code, playerNum |-> seat]
NoWsData == WsData("", 0)

\* the state the constructor leaves
WsConstructed ==
    /\ roomCode = ""
    /\ isHost = FALSE
    /\ myPlayerNum = 0
    /\ ws = "none"
    /\ connCtx = "none"
    /\ awaitingReply = "none"
    /\ callResult = "none"
    /\ wsReconnectAttempts = 0
    /\ reconnectTimer = 0
    /\ lastWsSent = "none"
    /\ lastWsData = NoWsData
    /\ sinceSent = 0
    /\ delayLog = <<>>
    /\ attemptsMade = 0
    /\ lossErrors = 0

Min2(a, b) == IF a < b THEN a ELSE b

\* mutant: the exponent is the attempt number, not the attempt number minus one
reconnectDelayOffByOne(attempt) == Min2(BaseDelay * 2^attempt, MaxDelay)

\* mutant: the delay is not capped
reconnectDelayUncapped(attempt) == BaseDelay * 2^(attempt - 1)

\* Math.min(1000 * Math.pow(2, this.wsReconnectAttempts - 1), 10000)
reconnectDelay(attempt) == Min2(BaseDelay * 2^(attempt - 1), MaxDelay)

\* mutant: the guard is <= maxReconnectAttempts
mayRetryInclusive(attempts) == attempts <= maxReconnectAttempts

\* this.wsReconnectAttempts < this.maxReconnectAttempts
mayRetry(attempts) == attempts < maxReconnectAttempts

\* handleWsDisconnect(): runs in the socket's onclose
handleWsDisconnect ==
    IF roomCode # "" /\ mayRetry(wsReconnectAttempts)
    THEN /\ wsReconnectAttempts' = wsReconnectAttempts + 1
         /\ reconnectTimer' = reconnectDelay(wsReconnectAttempts + 1)
         /\ delayLog' = Append(delayLog, reconnectDelay(wsReconnectAttempts + 1))
         /\ UNCHANGED lossErrors
    ELSE IF roomCode # ""
    THEN /\ lossErrors' = lossErrors + 1
         /\ reconnectTimer' = 0
         /\ UNCHANGED <<wsReconnectAttempts, delayLog>>
    ELSE /\ reconnectTimer' = 0
         /\ UNCHANGED <<wsReconnectAttempts, delayLog, lossErrors>>

\* createRoom(): isHost = true; await connectWebSocket()
WsCreateRoom ==
    /\ roomCode = "" /\ ws \in {"none", "closed"} /\ reconnectTimer = 0
    /\ isHost' = TRUE
    /\ ws' = "connecting"
    /\ connCtx' = "create"
    /\ callResult' = "pending"
    /\ UNCHANGED <<roomCode, myPlayerNum, awaitingReply, wsReconnectAttempts, reconnectTimer,
                   lastWsSent, lastWsData, sinceSent, delayLog, attemptsMade, lossErrors>>

\* joinRoom(roomCode): isHost = false; await connectWebSocket()
WsJoinRoom ==
    /\ roomCode = "" /\ ws \in {"none", "closed"} /\ reconnectTimer = 0
    /\ isHost' = FALSE
    /\ ws' = "connecting"
    /\ connCtx' = "join"
    /\ callResult' = "pending"
    /\ UNCHANGED <<roomCode, myPlayerNum, awaitingReply, wsReconnectAttempts, reconnectTimer,
                   lastWsSent, lastWsData, sinceSent, delayLog, attemptsMade, lossErrors>>

\* mutant: after a reconnection the client goes through create / join again
WsOpenRejoinByJoin ==
    /\ ws = "connecting"
    /\ ws' = "open"
    /\ wsReconnectAttempts' = 0
    /\ delayLog' = <<>>
    /\ attemptsMade' = 0
    /\ lossErrors' = 0
    /\ connCtx' = "none"
    /\ IF connCtx = "reconnect"
       THEN /\ lastWsSent' = IF isHost THEN "create" ELSE "join"
            /\ lastWsData' = IF isHost THEN NoWsData ELSE WsData(roomCode, 0)
            /\ UNCHANGED <<awaitingReply, sinceSent>>
       ELSE /\ lastWsSent' = connCtx
            /\ lastWsData' = IF connCtx = "join" THEN WsData("ROOM01", 0) ELSE NoWsData
            /\ awaitingReply' = connCtx
            /\ sinceSent' = 0
    /\ UNCHANGED <<roomCode, isHost, myPlayerNum, callResult, reconnectTimer>>

\* mutant: onopen does not reset the attempt counter
WsOpenNoReset ==
    /\ ws = "connecting"
    /\ ws' = "open"
    /\ delayLog' = <<>>
    /\ attemptsMade' = 0
    /\ lossErrors' = 0
    /\ connCtx' = "none"
    /\ IF connCtx = "reconnect"
       THEN /\ lastWsSent' = "rejoin"
            /\ lastWsData' = WsData(roomCode, IF isHost THEN 1 ELSE myPlayerNum)
            /\ UNCHANGED <<awaitingReply, sinceSent>>
       ELSE /\ lastWsSent' = connCtx
            /\ lastWsData' = IF connCtx = "join" THEN WsData("ROOM01", 0) ELSE NoWsData
            /\ awaitingReply' = connCtx
            /\ sinceSent' = 0
    /\ UNCHANGED <<roomCode, isHost, myPlayerNum, callResult, reconnectTimer, wsReconnectAttempts>>

\* ws.onopen, and the code that awaited connectWebSocket()
WsOpen ==
    /\ ws = "connecting"
    /\ ws' = "open"
    /\ wsReconnectAttempts' = 0
    /\ delayLog' = <<>>
    /\ attemptsMade' = 0
    /\ lossErrors' = 0
    /\ connCtx' = "none"
    /\ IF connCtx = "reconnect"
       THEN /\ lastWsSent' = "rejoin"
            /\ lastWsData' = WsData(roomCode, IF isHost THEN 1 ELSE myPlayerNum)
            /\ UNCHANGED <<awaitingReply, sinceSent>>
       ELSE /\ lastWsSent' = connCtx
            /\ lastWsData' = IF connCtx = "join" THEN WsData("ROOM01", 0) ELSE NoWsData
            /\ awaitingReply' = connCtx
            /\ sinceSent' = 0
    /\ UNCHANGED <<roomCode, isHost, myPlayerNum, callResult, reconnectTimer>>

\* the connection attempt fails: ws.onerror rejects, then ws.onclose runs
WsConnectFail ==
    /\ ws = "connecting"
    /\ ws' = "closed"
    /\ connCtx' = "none"
    /\ callResult' = IF connCtx \in {"create", "join"} THEN "connfail" ELSE callResult
    /\ handleWsDisconnect
    /\ UNCHANGED <<roomCode, isHost, myPlayerNum, awaitingReply, lastWsSent, lastWsData, sinceSent, attemptsMade>>

\* the 5 s timer of connectWebSocket(): this.ws.close(); reject
WsConnectTimeout ==
    /\ ws = "connecting"
    /\ ws' = "closing"
    /\ connCtx' = "none"
    /\ callResult' = IF connCtx \in {"create", "join"} THEN "connfail" ELSE callResult
    /\ UNCHANGED <<roomCode, isHost, myPlayerNum, awaitingReply, wsReconnectAttempts,
                   reconnectTimer, lastWsSent, lastWsData, sinceSent, delayLog, attemptsMade, lossErrors>>

\* ws.onclose of an open socket (transport loss) or of one that close() was called on
WsClose ==
    /\ ws \in {"open", "closing"}
    /\ ws' = "closed"
    /\ awaitingReply' = "none"
    /\ handleWsDisconnect
    /\ UNCHANGED <<roomCode, isHost, myPlayerNum, connCtx, callResult, lastWsSent, lastWsData, sinceSent, attemptsMade>>

\* the reconnect timer fires: await this.connectWebSocket()
ReconnectTimerFires ==
    /\ reconnectTimer # 0
    /\ reconnectTimer' = 0
    /\ ws' = "connecting"
    /\ connCtx' = "reconnect"
    /\ attemptsMade' = attemptsMade + 1
    /\ UNCHANGED <<roomCode, isHost, myPlayerNum, awaitingReply, callResult,
                   wsReconnectAttempts, lastWsSent, lastWsData, sinceSent, delayLog, lossErrors>>

\* handleWsMessage 'created' / 'joined': the reply to the request
WsReplyOk(seat) ==
    /\ ws = "open" /\ awaitingReply # "none"
    /\ (awaitingReply = "create") <=> (seat = 1)
    /\ roomCode' = "ROOM01"
    /\ myPlayerNum' = seat
    /\ awaitingReply' = "none"
    /\ callResult' = IF callResult = "pending" THEN "ok" ELSE callResult
    /\ UNCHANGED <<isHost, ws, connCtx, wsReconnectAttempts, reconnectTimer, lastWsSent, lastWsData, sinceSent,
                   delayLog, attemptsMade, lossErrors>>

\* an 'error' reply to the request
WsReplyError ==
    /\ ws = "open" /\ awaitingReply # "none"
    /\ awaitingReply' = "none"
    /\ callResult' = IF callResult = "pending" THEN "error" ELSE callResult
    /\ UNCHANGED <<roomCode, isHost, myPlayerNum, ws, connCtx, wsReconnectAttempts,
                   reconnectTimer, lastWsSent, lastWsData, sinceSent, delayLog, attemptsMade, lossErrors>>

\* time passes while createRoom()/joinRoom() waits for the reply
Elapse ==
    /\ callResult = "pending" /\ connCtx = "none"
    /\ sinceSent < ReplyTimeout
    /\ sinceSent' = sinceSent + ReplyTimeout
    /\ UNCHANGED <<roomCode, isHost, myPlayerNum, ws, connCtx, awaitingReply, callResult,
                   wsReconnectAttempts, reconnectTimer, lastWsSent, lastWsData, delayLog,
                   attemptsMade, lossErrors>>

\* the 5 s timer of createRoom()/joinRoom()
WsReplyTimeout ==
    /\ callResult = "pending" /\ connCtx = "none"
    /\ sinceSent >= ReplyTimeout
    /\ callResult' = "timeout"
    /\ UNCHANGED <<roomCode, isHost, myPlayerNum, ws, connCtx, awaitingReply,
                   wsReconnectAttempts, reconnectTimer, lastWsSent, lastWsData, sinceSent, delayLog, attemptsMade,
                   lossErrors>>

\* handleWsMessage 'room-closed': emit, cleanup() (roomCode is left as it is)
WsRoomClosed ==
    /\ ws = "open" /\ roomCode # ""
    /\ reconnectTimer' = 0
    /\ UNCHANGED <<roomCode, isHost, myPlayerNum, ws, connCtx, awaitingReply, callResult,
                   wsReconnectAttempts, lastWsSent, lastWsData, sinceSent, delayLog, attemptsMade, lossErrors>>

\* disconnect(): send 'leave', close the socket, cleanup(), forget the room
WsDisconnect ==
    /\ roomCode # ""
    /\ lastWsSent' = IF ws = "open" THEN "leave" ELSE lastWsSent
    /\ lastWsData' = IF ws = "open" THEN NoWsData ELSE lastWsData
    /\ UNCHANGED sinceSent
    /\ ws' = "none"
    /\ reconnectTimer' = 0
    /\ roomCode' = ""
    /\ myPlayerNum' = 0
    /\ connCtx' = "none"
    /\ awaitingReply' = "none"
    /\ UNCHANGED <<isHost, callResult, wsReconnectAttempts, delayLog, attemptsMade, lossErrors>>

ReconnInit == SigIdle /\ WsConstructed /\ NegConstructed /\ CodecConstructed /\ PingConstructed /\ RaceConstructed /\ TtlConstructed /\ PollConstructed /\ MemberConstructed /\ StreamConstructed /\ ServerConstructed

ReconnNext ==
    \/ WsCreateRoom /\ UNCHANGED <<sigVars, negVars, codecVars, pingVars, raceVars, ttlVars, pollVars, memberVars, streamVars, serverVars>>
    \/ WsJoinRoom /\ UNCHANGED <<sigVars, negVars, codecVars, pingVars, raceVars, ttlVars, pollVars, memberVars, streamVars, serverVars>>
    \/ WsOpen /\ UNCHANGED <<sigVars, negVars, codecVars, pingVars, raceVars, ttlVars, pollVars, memberVars, streamVars, serverVars>>
    \/ WsConnectFail /\ UNCHANGED <<sigVars, negVars, codecVars, pingVars, raceVars, ttlVars, pollVars, memberVars, streamVars, serverVars>>
    \/ WsConnectTimeout /\ UNCHANGED <<sigVars, negVars, codecVars, pingVars, raceVars, ttlVars, pollVars, memberVars, streamVars, serverVars>>
    \/ WsClose /\ UNCHANGED <<sigVars, negVars, codecVars, pingVars, raceVars, ttlVars, pollVars, memberVars, streamVars, serverVars>>
    \/ ReconnectTimerFires /\ UNCHANGED <<sigVars, negVars, codecVars, pingVars, raceVars, ttlVars, pollVars, memberVars, streamVars, serverVars>>
    \/ (\E seat \in Seats : WsReplyOk(seat)) /\ UNCHANGED <<sigVars, negVars, codecVars, pingVars, raceVars, ttlVars, pollVars, memberVars, streamVars, serverVars>>
    \/ WsReplyError /\ UNCHANGED <<sigVars, negVars, codecVars, pingVars, raceVars, ttlVars, pollVars, memberVars, streamVars, serverVars>>
    \/ Elapse /\ UNCHANGED <<sigVars, negVars, codecVars, pingVars, raceVars, ttlVars, pollVars, memberVars, streamVars, serverVars>>
    \/ WsReplyTimeout /\ UNCHANGED <<sigVars, negVars, codecVars, pingVars, raceVars, ttlVars, pollVars, memberVars, streamVars, serverVars>>
    \/ WsRoomClosed /\ UNCHANGED <<sigVars, negVars, codecVars, pingVars, raceVars, ttlVars, pollVars, memberVars, streamVars, serverVars>>
    \/ WsDisconnect /\ UNCHANGED <<sigVars, negVars, codecVars, pingVars, raceVars, ttlVars, pollVars, memberVars, streamVars, serverVars>>

SpecReconn == ReconnInit /\ [][ReconnNext]_vars

\* ========================================================================
\* RoomManager of js/room.js: createRoom / joinRoom over its signaling socket
\* ========================================================================
\* the variables of the WebSocket client that js/room.js has no counterpart for
RjUnused == <<wsReconnectAttempts, reconnectTimer, delayLog, attemptsMade, lossErrors>>

\* createRoom(): the room code is generated by the client; await connectSignaling()
RjCreateRoom ==
    /\ ws \in {"none", "closed"} /\ callResult # "pending"
    /\ isHost' = TRUE
    /\ roomCode' = "ROOM01"
    /\ myPlayerNum' = 1
    /\ ws' = "connecting"
    /\ connCtx' = "create"
    /\ callResult' = "pending"
    /\ UNCHANGED <<awaitingReply, lastWsSent, lastWsData, sinceSent, RjUnused>>

\* joinRoom(roomCode): await connectSignaling()
RjJoinRoom ==
    /\ ws \in {"none", "closed"} /\ callResult # "pending"
    /\ isHost' = FALSE
    /\ roomCode' = "ROOM01"
    /\ ws' = "connecting"
    /\ connCtx' = "join"
    /\ callResult' = "pending"
    /\ UNCHANGED <<myPlayerNum, awaitingReply, lastWsSent, lastWsData, sinceSent, RjUnused>>

\* signalingWs.onopen and the code that awaited connectSignaling(): createRoom sends
\* 'create-room' and returns the code; joinRoom sends 'join-room' and arms its timer
RjOpen ==
    /\ ws = "connecting"
    /\ ws' = "open"
    /\ connCtx' = "none"
    /\ lastWsSent' = IF connCtx = "create" THEN "create-room" ELSE "join-room"
    /\ lastWsData' = WsData(roomCode, 0)
    /\ awaitingReply' = connCtx
    /\ sinceSent' = 0
    /\ callResult' = IF connCtx = "create" THEN "ok" ELSE callResult
    /\ UNCHANGED <<roomCode, isHost, myPlayerNum, RjUnused>>

\* signalingWs.onerror while connecting: connectSignaling() rejects
RjConnectError ==
    /\ ws = "connecting"
    /\ ws' = "closed"
    /\ connCtx' = "none"
    /\ callResult' = "connfail"
    /\ UNCHANGED <<roomCode, isHost, myPlayerNum, awaitingReply, lastWsSent, lastWsData,
                   sinceSent, RjUnused>>

\* handleSignalingMessage 'room-created': logged
RjRoomCreated ==
    /\ ws = "open" /\ awaitingReply = "create"
    /\ awaitingReply' = "none"
    /\ UNCHANGED <<roomCode, isHost, myPlayerNum, ws, connCtx, callResult, lastWsSent,
                   lastWsData, sinceSent, RjUnused>>
    /\ UNCHANGED negVars

\* handleSignalingMessage 'join-success': the seat is stored, joinResolve is called,
\* then setupPeerConnection(1) and createOffer(1)
RjJoinSuccess(seat) ==
    /\ ws = "open" /\ awaitingReply = "join"
    /\ myPlayerNum' = seat
    /\ awaitingReply' = "none"
    /\ callResult' = IF callResult = "pending" THEN "ok" ELSE callResult
    /\ peerConnections' = [peerConnections EXCEPT ![1] = "have-local-offer"]
    /\ sigOut' = Signal("offer", 1)
    /\ handled' = Signal("join-success", seat)
    /\ escaped' = FALSE
    /\ candidateDropped' = FALSE
    /\ UNCHANGED <<roomCode, isHost, ws, connCtx, lastWsSent, lastWsData, sinceSent, RjUnused>>
    /\ UNCHANGED clientKind

\* handleSignalingMessage 'error': joinReject is called when it is set
RjError ==
    /\ ws = "open" /\ awaitingReply # "none"
    /\ awaitingReply' = "none"
    /\ callResult' = IF callResult = "pending" THEN "error" ELSE callResult
    /\ UNCHANGED <<roomCode, isHost, myPlayerNum, ws, connCtx, lastWsSent, lastWsData,
                   sinceSent, RjUnused>>
    /\ UNCHANGED negVars

\* time passes while joinRoom() waits for the reply
RjElapse ==
    /\ callResult = "pending" /\ connCtx = "none"
    /\ sinceSent < JoinTimeoutRoomJs
    /\ sinceSent' = sinceSent + ReplyTimeout
    /\ UNCHANGED <<roomCode, isHost, myPlayerNum, ws, connCtx, awaitingReply, callResult,
                   lastWsSent, lastWsData, RjUnused>>

\* the 15 s timer of joinRoom(): if (this.joinReject) reject
RjJoinTimeout ==
    /\ callResult = "pending" /\ connCtx = "none"
    /\ sinceSent >= JoinTimeoutRoomJs
    /\ callResult' = "timeout"
    /\ UNCHANGED <<roomCode, isHost, myPlayerNum, ws, connCtx, awaitingReply, lastWsSent,
                   lastWsData, sinceSent, RjUnused>>

\* signalingWs.onclose: emit('disconnected'), nothing else
RjClose ==
    /\ ws = "open"
    /\ ws' = "closed"
    /\ awaitingReply' = "none"
    /\ UNCHANGED <<roomCode, isHost, myPlayerNum, connCtx, callResult, lastWsSent,
                   lastWsData, sinceSent, RjUnused>>

\* a RoomManager as constructed, of js/room.js or of the WebSocket version
CallInit ==
    /\ SigIdle /\ WsConstructed /\ CodecConstructed /\ PingConstructed /\ RaceConstructed /\ TtlConstructed /\ PollConstructed /\ MemberConstructed /\ StreamConstructed /\ ServerConstructed
    /\ clientKind \in {"roomjs", "ws"}
    /\ peerConnections = [p \in Seats |-> "none"]
    /\ sigOut = NoSignal
    /\ handled = NoSignal
    /\ escaped = FALSE
    /\ candidateDropped = FALSE

CallNext ==
    \/ clientKind = "ws" /\ WsCreateRoom /\ UNCHANGED <<sigVars, negVars, codecVars, pingVars, raceVars, ttlVars, pollVars, memberVars, streamVars, serverVars>>
    \/ clientKind = "ws" /\ WsJoinRoom /\ UNCHANGED <<sigVars, negVars, codecVars, pingVars, raceVars, ttlVars, pollVars, memberVars, streamVars, serverVars>>
    \/ clientKind = "ws" /\ WsOpen /\ UNCHANGED <<sigVars, negVars, codecVars, pingVars, raceVars, ttlVars, pollVars, memberVars, streamVars, serverVars>>
    \/ clientKind = "ws" /\ WsConnectFail /\ UNCHANGED <<sigVars, negVars, codecVars, pingVars, raceVars, ttlVars, pollVars, memberVars, streamVars, serverVars>>
    \/ clientKind = "ws" /\ WsConnectTimeout /\ UNCHANGED <<sigVars, negVars, codecVars, pingVars, raceVars, ttlVars, pollVars, memberVars, streamVars, serverVars>>
    \/ clientKind = "ws" /\ WsClose /\ UNCHANGED <<sigVars, negVars, codecVars, pingVars, raceVars, ttlVars, pollVars, memberVars, streamVars, serverVars>>
    \/ clientKind = "ws" /\ ReconnectTimerFires /\ UNCHANGED <<sigVars, negVars, codecVars, pingVars, raceVars, ttlVars, pollVars, memberVars, streamVars, serverVars>>
    \/ clientKind = "ws" /\ (\E seat \in Seats : WsReplyOk(seat)) /\ UNCHANGED <<sigVars, negVars, codecVars, pingVars, raceVars, ttlVars, pollVars, memberVars, streamVars, serverVars>>
    \/ clientKind = "ws" /\ WsReplyError /\ UNCHANGED <<sigVars, negVars, codecVars, pingVars, raceVars, ttlVars, pollVars, memberVars, streamVars, serverVars>>
    \/ clientKind = "ws" /\ Elapse /\ UNCHANGED <<sigVars, negVars, codecVars, pingVars, raceVars, ttlVars, pollVars, memberVars, streamVars, serverVars>>
    \/ clientKind = "ws" /\ WsReplyTimeout /\ UNCHANGED <<sigVars, negVars, codecVars, pingVars, raceVars, ttlVars, pollVars, memberVars, streamVars, serverVars>>
    \/ clientKind = "ws" /\ WsRoomClosed /\ UNCHANGED <<sigVars, negVars, codecVars, pingVars, raceVars, ttlVars, pollVars, memberVars, streamVars, serverVars>>
    \/ clientKind = "ws" /\ WsDisconnect /\ UNCHANGED <<sigVars, negVars, codecVars, pingVars, raceVars, ttlVars, pollVars, memberVars, streamVars, serverVars>>
    \/ clientKind = "roomjs" /\ RjCreateRoom /\ UNCHANGED <<sigVars, negVars, codecVars, pingVars, raceVars, ttlVars, pollVars, memberVars, streamVars, serverVars>>
    \/ clientKind = "roomjs" /\ RjJoinRoom /\ UNCHANGED <<sigVars, negVars, codecVars, pingVars, raceVars, ttlVars, pollVars, memberVars, streamVars, serverVars>>
    \/ clientKind = "roomjs" /\ RjOpen /\ UNCHANGED <<sigVars, negVars, codecVars, pingVars, raceVars, ttlVars, pollVars, memberVars, streamVars, serverVars>>
    \/ clientKind = "roomjs" /\ RjConnectError /\ UNCHANGED <<sigVars, negVars, codecVars, pingVars, raceVars, ttlVars, pollVars, memberVars, streamVars, serverVars>>
    \/ clientKind = "roomjs" /\ RjRoomCreated /\ UNCHANGED <<sigVars, codecVars, pingVars, raceVars, ttlVars, pollVars, memberVars, streamVars, serverVars>>
    \/ clientKind = "roomjs" /\ (\E seat \in GuestSeats : RjJoinSuccess(seat)) /\ UNCHANGED <<sigVars, codecVars, pingVars, raceVars, ttlVars, pollVars, memberVars, streamVars, serverVars>>
    \/ clientKind = "roomjs" /\ RjError /\ UNCHANGED <<sigVars, codecVars, pingVars, raceVars, ttlVars, pollVars, memberVars, streamVars, serverVars>>
    \/ clientKind = "roomjs" /\ RjElapse /\ UNCHANGED <<sigVars, negVars, codecVars, pingVars, raceVars, ttlVars, pollVars, memberVars, streamVars, serverVars>>
    \/ clientKind = "roomjs" /\ RjJoinTimeout /\ UNCHANGED <<sigVars, negVars, codecVars, pingVars, raceVars, ttlVars, pollVars, memberVars, streamVars, serverVars>>
    \/ clientKind = "roomjs" /\ RjClose /\ UNCHANGED <<sigVars, negVars, codecVars, pingVars, raceVars, ttlVars, pollVars, memberVars, streamVars, serverVars>>

SpecCall == CallInit /\ [][CallNext]_vars

\* ========================================================================
\* RoomManager: offer / answer / ICE handlers
\* ========================================================================
ClientKinds == {"roomjs", "ws", "poll"}

\* A connection is "new" (signalingState stable, no description set), "have-local-offer",
\* "have-remote-offer" or "stable" (negotiated); "none" = no entry in peerConnections.
PcStates == {"none", "new", "have-local-offer", "have-remote-offer", "stable"}

\* RTCPeerConnection.signalingState
signalingState(pc) == IF pc \in {"new", "stable"} THEN "stable" ELSE pc

\* RTCPeerConnection.setRemoteDescription(answer) succeeds only in have-local-offer
\* (and only for a well-formed description); otherwise it rejects and changes nothing
answerApplies(pc, wellFormed) == pc = "have-local-offer" /\ wellFormed

\* RTCPeerConnection.setRemoteDescription(offer) on a connection in the stable state
offerApplies(pc, wellFormed) == signalingState(pc) = "stable" /\ wellFormed

Peers == Seats \ {myPlayerNum}

\* ---- 'player-joined' ----
\* room.js / polling: the host only sets the connection up (the guest offers);
\* WebSocket version: the host sets it up and sends the offer
PlayerJoined(p) ==
    /\ handled' = Signal("player-joined", p)
    /\ candidateDropped' = FALSE
    /\ escaped' = FALSE
    /\ IF ~isHost
       THEN UNCHANGED <<peerConnections, sigOut>>
       ELSE IF clientKind = "ws"
       THEN /\ peerConnections' = [peerConnections EXCEPT ![p] = "have-local-offer"]
            /\ sigOut' = Signal("offer", p)
       ELSE /\ peerConnections' = [peerConnections EXCEPT ![p] = "new"]
            /\ UNCHANGED sigOut
    /\ UNCHANGED clientKind

\* ---- room.js 'join-success' / polling joinRoom(): the guest offers to the host ----
GuestOffers ==
    /\ ~isHost /\ clientKind \in {"roomjs", "poll"}
    /\ peerConnections[1] = "none"
    /\ peerConnections' = [peerConnections EXCEPT ![1] = "have-local-offer"]
    /\ sigOut' = Signal("offer", 1)
    /\ handled' = Signal("join-success", myPlayerNum)
    /\ candidateDropped' = FALSE
    /\ escaped' = FALSE
    /\ UNCHANGED clientKind

\* ---- 'player-left': closePeerConnection ----
PlayerLeft(p) ==
    /\ peerConnections' = [peerConnections EXCEPT ![p] = "none"]
    /\ handled' = Signal("player-left", p)
    /\ candidateDropped' = FALSE
    /\ escaped' = FALSE
    /\ UNCHANGED <<clientKind, sigOut>>

\* ---- 'offer' ----
\* js/room.js: a fresh connection every time, no state check, no try/catch
handleOfferRoomJs(fromPlayer, wellFormed) ==
    /\ clientKind = "roomjs"
    /\ IF offerApplies("new", wellFormed)
       THEN /\ peerConnections' = [peerConnections EXCEPT ![fromPlayer] = "stable"]
            /\ sigOut' = Signal("answer", fromPlayer)
            /\ escaped' = FALSE
       ELSE /\ peerConnections' = [peerConnections EXCEPT ![fromPlayer] = "new"]
            /\ escaped' = TRUE
            /\ UNCHANGED sigOut

\* part_005 (both classes): an existing connection that is not stable ignores the offer
handleOfferGuarded(fromPlayer, wellFormed) ==
    /\ clientKind \in {"ws", "poll"}
    /\ escaped' = FALSE
    /\ LET pc == IF peerConnections[fromPlayer] = "none" THEN "new"
                 ELSE peerConnections[fromPlayer]
       IN IF signalingState(pc) # "stable"
          THEN UNCHANGED <<peerConnections, sigOut>>
          ELSE IF offerApplies(pc, wellFormed)
          THEN /\ peerConnections' = [peerConnections EXCEPT ![fromPlayer] = "stable"]
               /\ sigOut' = Signal("answer", fromPlayer)
          ELSE /\ peerConnections' = [peerConnections EXCEPT ![fromPlayer] = pc]
               /\ UNCHANGED sigOut

HandleOffer(fromPlayer, wellFormed) ==
    /\ handled' = Signal("offer", fromPlayer)
    /\ candidateDropped' = FALSE
    /\ \/ handleOfferRoomJs(fromPlayer, wellFormed)
       \/ handleOfferGuarded(fromPlayer, wellFormed)
    /\ UNCHANGED clientKind

\* ---- 'answer' ----
\* js/room.js: if (pc) await pc.setRemoteDescription(answer)
handleAnswerRoomJs(fromPlayer, wellFormed) ==
    /\ clientKind = "roomjs"
    /\ LET pc == peerConnections[fromPlayer]
       IN IF pc = "none"
          THEN /\ escaped' = FALSE
               /\ UNCHANGED peerConnections
          ELSE IF answerApplies(pc, wellFormed)
          THEN /\ peerConnections' = [peerConnections EXCEPT ![fromPlayer] = "stable"]
               /\ escaped' = FALSE
          ELSE /\ escaped' = TRUE
               /\ UNCHANGED peerConnections

\* part_005 (both classes): return unless have-local-offer; try/catch around the call
handleAnswerGuarded(fromPlayer, wellFormed) ==
    /\ clientKind \in {"ws", "poll"}
    /\ escaped' = FALSE
    /\ LET pc == peerConnections[fromPlayer]
       IN IF pc = "none" \/ signalingState(pc) # "have-local-offer"
          THEN UNCHANGED peerConnections
          ELSE IF answerApplies(pc, wellFormed)
          THEN peerConnections' = [peerConnections EXCEPT ![fromPlayer] = "stable"]
          ELSE UNCHANGED peerConnections

HandleAnswer(fromPlayer, wellFormed) ==
    /\ handled' = Signal("answer", fromPlayer)
    /\ candidateDropped' = FALSE
    /\ \/ handleAnswerRoomJs(fromPlayer, wellFormed)
       \/ handleAnswerGuarded(fromPlayer, wellFormed)
    /\ UNCHANGED <<clientKind, sigOut>>

\* RTCPeerConnection.addIceCandidate resolves only on a connection that has a remote
\* description (and only for a well-formed candidate); otherwise it rejects
candidateApplies(pc, wellFormed) == pc \in {"have-remote-offer", "stable"} /\ wellFormed

\* mutant: addIceCandidate is awaited without try/catch
HandleIceCandidateNoCatch(fromPlayer, wellFormed) ==
    /\ handled' = Signal("ice-candidate", fromPlayer)
    /\ candidateDropped' = ~candidateApplies(peerConnections[fromPlayer], wellFormed)
    /\ escaped' = (peerConnections[fromPlayer] # "none"
                     /\ ~candidateApplies(peerConnections[fromPlayer], wellFormed))
    /\ UNCHANGED <<clientKind, peerConnections, sigOut>>

\* ---- 'ice-candidate': if (pc && candidate) try { addIceCandidate } catch { log } ----
HandleIceCandidate(fromPlayer, wellFormed) ==
    /\ handled' = Signal("ice-candidate", fromPlayer)
    /\ candidateDropped' = ~candidateApplies(peerConnections[fromPlayer], wellFormed)
    /\ escaped' = FALSE
    /\ UNCHANGED <<clientKind, peerConnections, sigOut>>

\* a client that is a member of a room, as the host or as the guest on seat 2
NegMember ==
    /\ clientKind \in ClientKinds
    /\ isHost \in BOOLEAN
    /\ myPlayerNum = IF isHost THEN 1 ELSE 2
    /\ roomCode = "ROOM01"
    /\ ws = "open"
    /\ connCtx = "none"
    /\ awaitingReply = "none"
    /\ callResult = "ok"
    /\ wsReconnectAttempts = 0
    /\ reconnectTimer = 0
    /\ lastWsSent = IF isHost THEN "create" ELSE "join"
    /\ lastWsData = IF isHost THEN NoWsData ELSE WsData("ROOM01", 0)
    /\ sinceSent = 0
    /\ delayLog = <<>>
    /\ attemptsMade = 0
    /\ lossErrors = 0
    /\ peerConnections = [p \in Seats |-> "none"]
    /\ sigOut = NoSignal
    /\ handled = NoSignal
    /\ escaped = FALSE
    /\ candidateDropped = FALSE

NegInit == SigIdle /\ NegMember /\ CodecConstructed /\ PingConstructed /\ RaceConstructed /\ TtlConstructed /\ PollConstructed /\ MemberConstructed /\ StreamConstructed /\ ServerConstructed

NegNext ==
    \/ (\E p \in Peers : PlayerJoined(p)) /\ UNCHANGED <<sigVars, wsVars, codecVars, pingVars, raceVars, ttlVars, pollVars, memberVars, streamVars, serverVars>>
    \/ GuestOffers /\ UNCHANGED <<sigVars, wsVars, codecVars, pingVars, raceVars, ttlVars, pollVars, memberVars, streamVars, serverVars>>
    \/ (\E p \in Peers : PlayerLeft(p)) /\ UNCHANGED <<sigVars, wsVars, codecVars, pingVars, raceVars, ttlVars, pollVars, memberVars, streamVars, serverVars>>
    \/ (\E p \in Peers, ok \in BOOLEAN : HandleOffer(p, ok)) /\ UNCHANGED <<sigVars, wsVars, codecVars, pingVars, raceVars, ttlVars, pollVars, memberVars, streamVars, serverVars>>
    \/ (\E p \in Peers, ok \in BOOLEAN : HandleAnswer(p, ok)) /\ UNCHANGED <<sigVars, wsVars, codecVars, pingVars, raceVars, ttlVars, pollVars, memberVars, streamVars, serverVars>>
    \/ (\E p \in Peers, ok \in BOOLEAN : HandleIceCandidate(p, ok)) /\ UNCHANGED <<sigVars, wsVars, codecVars, pingVars, raceVars, ttlVars, pollVars, memberVars, streamVars, serverVars>>

SpecNeg == NegInit /\ [][NegNext]_vars

\* ========================================================================
\* NESEmulator: compressFrame / decompressFrame
\* ========================================================================
\* A buffer is a function on 0..FrameSize-1 (FrameSize stands for 256 * 240); a
\* frame's data is the array the code builds, as a sequence (data[i] is seq[i+1]).
Indices == 0..(FrameSize - 1)
Pixels == {0, 1}
Rasters == [Indices -> Pixels]
Blank == [i \in Indices |-> 0]

\* for (i = 0; i < frameBuffer.length; i += 2) sampled.push(frameBuffer[i])
sampled(frameBuffer) == [k \in 1..((FrameSize + 1) \div 2) |-> frameBuffer[2 * (k - 1)]]

\* for each i from `from` on: if (frameBuffer[i] !== last[i]) changes.push(i, frameBuffer[i])
RECURSIVE changes(_, _, _)
changes(frameBuffer, last, from) ==
    IF from >= FrameSize THEN <<>>
    ELSE (IF frameBuffer[from] # last[from] THEN <<from, frameBuffer[from]>> ELSE <<>>)
         \o changes(frameBuffer, last, from + 1)

\* compressFrame(frameBuffer): the frame it returns (lastFrameBuffer becomes a copy
\* of frameBuffer in both branches)
compressFrame(frameBuffer, last) ==
    IF last = NoBuffer
    THEN [type |-> "full", data |-> sampled(frameBuffer)]
    ELSE LET ch == changes(frameBuffer, last, 0)
         IN IF 2 * Len(ch) > FrameSize
            THEN [type |-> "full", data |-> sampled(frameBuffer)]
            ELSE [type |-> "diff", data |-> ch]

\* mutant: the full-frame branch does not copy the sample into the next slot
decodeFullNoFill(data) ==
    [j \in Indices |-> IF j % 2 = 0 /\ j \div 2 < Len(data) THEN data[(j \div 2) + 1] ELSE 0]

\* decompressFrame, full frame: buffer[2i] = data[i]; if (2i+1 < length) buffer[2i+1] = data[i]
decodeFull(data) ==
    [j \in Indices |-> IF j \div 2 < Len(data) THEN data[(j \div 2) + 1] ELSE 0]

\* mutant: the decode stops at the first pair whose index is outside the raster
RECURSIVE decodeDiffStopAtBadIndex(_, _, _)
decodeDiffStopAtBadIndex(buffer, data, k) ==
    IF k > Len(data) THEN buffer
    ELSE LET idx == data[k]
             pixel == IF k + 1 <= Len(data) THEN data[k + 1] ELSE 0
         IN IF idx \in Indices
            THEN decodeDiffStopAtBadIndex([buffer EXCEPT ![idx] = pixel], data, k + 2)
            ELSE buffer

\* decompressFrame, diff frame: buffer[data[i]] = data[i+1] for i = 0, 2, 4, ...
\* (a store outside a typed array is dropped; a missing pixel stores 0)
RECURSIVE decodeDiff(_, _, _)
decodeDiff(buffer, data, k) ==
    IF k > Len(data) THEN buffer
    ELSE LET idx == data[k]
             pixel == IF k + 1 <= Len(data) THEN data[k + 1] ELSE 0
         IN decodeDiff(IF idx \in Indices THEN [buffer EXCEPT ![idx] = pixel] ELSE buffer,
                       data, k + 2)

\* mutant: the diff branch starts from a zeroed buffer, not from the retained one
decompressFrameFromBlank(fd, last) ==
    IF fd.type = "full"
    THEN decodeFull(fd.data)
    ELSE decodeDiff(Blank, fd.data, 1)

\* decompressFrame(frameData): the buffer it returns and retains
decompressFrame(fd, last) ==
    IF fd.type = "full"
    THEN decodeFull(fd.data)
    ELSE decodeDiff(IF last = NoBuffer THEN Blank ELSE last, fd.data, 1)

\* mutant: the diff branch of compressFrame does not retain the raster it encoded
HostFrameStaleLast(frameBuffer, delivered) ==
    /\ frameData = NoFrame
    /\ frameRaster' = IF delivered THEN frameBuffer ELSE frameRaster
    /\ LET compressed == compressFrame(frameBuffer, hostLast)
       IN /\ hostLast' = IF compressed.type = "diff" THEN hostLast ELSE frameBuffer
          /\ frameData' = IF delivered THEN compressed ELSE NoFrame
          /\ frameChanged' = IF delivered /\ compressed.type = "diff"
                             THEN {i \in Indices : frameBuffer[i] # hostLast[i]}
                             ELSE {}
    /\ UNCHANGED <<recvLast, shownNote, shown, shownType>>

\* onFrameReady on the host: compressFrame, then sendFrame (a channel that is not
\* open gets nothing)
HostFrame(frameBuffer, delivered) ==
    /\ frameData = NoFrame
    /\ hostLast' = frameBuffer
    /\ frameRaster' = IF delivered THEN frameBuffer ELSE frameRaster
    /\ LET compressed == compressFrame(frameBuffer, hostLast)
       IN /\ frameData' = IF delivered THEN compressed ELSE NoFrame
          /\ frameChanged' = IF delivered /\ compressed.type = "diff"
                             THEN {i \in Indices : frameBuffer[i] # hostLast[i]}
                             ELSE {}
    /\ UNCHANGED <<recvLast, shownNote, shown, shownType>>

\* receiveFrame on the guest: decompressFrame, then renderFrame
ReceiveFrame ==
    /\ frameData # NoFrame
    /\ shown' = decompressFrame(frameData, recvLast)
    /\ recvLast' = decompressFrame(frameData, recvLast)
    /\ shownType' = frameData.type
    /\ shownNote' = IF frameData.type = "diff"
                    THEN [retained |-> recvLast # NoBuffer,
                          pairs |-> Len(frameData.data) \div 2,
                          skipped |-> Cardinality({k \in 1..(Len(frameData.data) \div 2) :
                                                     frameData.data[2 * k - 1] \notin Indices})]
                    ELSE NoNote
    /\ frameChanged' = {}
    /\ frameData' = NoFrame
    /\ UNCHANGED <<hostLast, frameRaster>>

\* loadRom / reset / stop on the host: this.lastFrameBuffer = null
HostResetCache ==
    /\ hostLast # NoBuffer
    /\ hostLast' = NoBuffer
    /\ UNCHANGED <<recvLast, frameData, frameRaster, frameChanged, shownNote, shown, shownType>>

\* loadRom / stop on the guest: this.lastFrameBuffer = null
GuestResetCache ==
    /\ recvLast # NoBuffer
    /\ recvLast' = NoBuffer
    /\ UNCHANGED <<hostLast, frameData, frameRaster, frameChanged, shownNote, shown, shownType>>

CodecInit == SigIdle /\ WsConstructed /\ NegConstructed /\ CodecConstructed /\ PingConstructed /\ RaceConstructed /\ TtlConstructed /\ PollConstructed /\ MemberConstructed /\ StreamConstructed /\ ServerConstructed

CodecNext ==
    \/ (\E f \in Rasters, d \in BOOLEAN : HostFrame(f, d)) /\ UNCHANGED <<sigVars, wsVars, negVars, pingVars, raceVars, ttlVars, pollVars, memberVars, streamVars, serverVars>>
    \/ ReceiveFrame /\ UNCHANGED <<sigVars, wsVars, negVars, pingVars, raceVars, ttlVars, pollVars, memberVars, streamVars, serverVars>>
    \/ HostResetCache /\ UNCHANGED <<sigVars, wsVars, negVars, pingVars, raceVars, ttlVars, pollVars, memberVars, streamVars, serverVars>>
    \/ GuestResetCache /\ UNCHANGED <<sigVars, wsVars, negVars, pingVars, raceVars, ttlVars, pollVars, memberVars, streamVars, serverVars>>

SpecCodec == CodecInit /\ [][CodecNext]_vars

\* ========================================================================
\* RoomManager: ping / pong latency measurement
\* ========================================================================
\* the amounts by which the clock advances between two events
Ticks == {1, 39}

\* obj[k] = v and delete obj[k] on an object used as a map
Put(obj, k, v) == [x \in DOMAIN obj \cup {k} |-> IF x = k THEN v ELSE obj[x]]
Delete(obj, k) == [x \in DOMAIN obj \ {k} |-> obj[x]]

\* mutant: Math.floor instead of Math.round
floorHalf(x) == x \div 2

\* Math.round(x / 2) for an integer x: halves round towards +infinity
roundHalf(x) == (x + 1) \div 2

\* handlePong: Math.round((Date.now() - timestamp) / 2)
handlePongLatency(t, timestamp) == roundHalf(t - timestamp)

\* getLatency(playerNum): this.latencies[playerNum] || null
getLatency(playerNum) ==
    IF playerNum \in DOMAIN latencies /\ latencies[playerNum] # 0
    THEN Latency(latencies[playerNum])
    ELSE NoLatency

\* time passes
Tick(d) ==
    /\ now + d <= MaxClock
    /\ now' = now + d
    /\ UNCHANGED <<dataChannels, pingTimestamps, latencies, pongs, got, lastPong>>

\* channel.onopen: startPingMeasurement (the interval timer is SendPingToAll)
ChannelOpen(p) ==
    /\ dataChannels[p] = "none"
    /\ dataChannels' = [dataChannels EXCEPT ![p] = "open"]
    /\ UNCHANGED <<now, pingTimestamps, latencies, pongs, got, lastPong>>

\* channel.onclose: stopPingMeasurement; nothing arrives on the channel any more
ChannelClose(p) ==
    /\ dataChannels[p] = "open"
    /\ dataChannels' = [dataChannels EXCEPT ![p] = "none"]
    /\ latencies' = Delete(latencies, p)
    /\ pingTimestamps' = Delete(pingTimestamps, p)
    /\ pongs' = Delete(pongs, p)
    /\ got' = NotAsked
    /\ UNCHANGED <<now, lastPong>>

\* sendPingToAll: every open channel gets { type: 'ping', timestamp }, and the peer's
\* handlePing echoes the timestamp in a pong
SendPingToAll ==
    /\ pongs = Empty
    /\ \E p \in PingSeats : dataChannels[p] = "open"
    /\ LET open == {p \in PingSeats : dataChannels[p] = "open"}
       IN /\ pingTimestamps' = [p \in DOMAIN pingTimestamps \cup open |->
                                   IF p \in open THEN now ELSE pingTimestamps[p]]
          /\ pongs' = [p \in open |-> now]
    /\ UNCHANGED <<now, dataChannels, latencies, got, lastPong>>

\* channel.onmessage with a pong: handlePong(fromPlayer, timestamp)
HandlePong(fromPlayer) ==
    /\ fromPlayer \in DOMAIN pongs
    /\ latencies' = Put(latencies, fromPlayer, handlePongLatency(now, pongs[fromPlayer]))
    /\ lastPong' = [seat |-> fromPlayer, age |-> now - pongs[fromPlayer]]
    /\ pongs' = Delete(pongs, fromPlayer)
    /\ got' = NotAsked
    /\ UNCHANGED <<now, dataChannels, pingTimestamps>>

\* a caller asks for the latency of a seat
GetLatency(playerNum) ==
    /\ got' = [seat |-> playerNum, latency |-> getLatency(playerNum)]
    /\ UNCHANGED <<now, dataChannels, pingTimestamps, latencies, pongs, lastPong>>

PingInit == SigIdle /\ WsConstructed /\ NegConstructed /\ CodecConstructed /\ PingConstructed /\ RaceConstructed /\ TtlConstructed /\ PollConstructed /\ MemberConstructed /\ StreamConstructed /\ ServerConstructed

PingNext ==
    \/ (\E d \in Ticks : Tick(d)) /\ UNCHANGED <<sigVars, wsVars, negVars, codecVars, raceVars, ttlVars, pollVars, memberVars, streamVars, serverVars>>
    \/ (\E p \in PingSeats : ChannelOpen(p)) /\ UNCHANGED <<sigVars, wsVars, negVars, codecVars, raceVars, ttlVars, pollVars, memberVars, streamVars, serverVars>>
    \/ (\E p \in PingSeats : ChannelClose(p)) /\ UNCHANGED <<sigVars, wsVars, negVars, codecVars, raceVars, ttlVars, pollVars, memberVars, streamVars, serverVars>>
    \/ SendPingToAll /\ UNCHANGED <<sigVars, wsVars, negVars, codecVars, raceVars, ttlVars, pollVars, memberVars, streamVars, serverVars>>
    \/ (\E p \in PingSeats : HandlePong(p)) /\ UNCHANGED <<sigVars, wsVars, negVars, codecVars, raceVars, ttlVars, pollVars, memberVars, streamVars, serverVars>>
    \/ (\E p \in PingSeats : GetLatency(p)) /\ UNCHANGED <<sigVars, wsVars, negVars, codecVars, raceVars, ttlVars, pollVars, memberVars, streamVars, serverVars>>

SpecPing == PingInit /\ [][PingNext]_vars

\* ---- the decoder fed by a peer that does not run compressFrame ----
\* indices a diff frame may name: the raster's, one below and one above
ForeignIndices == Indices \cup {-1, FrameSize}

\* the data arrays of the diff frames such a peer sends: one pair or two
ForeignData ==
    {<<i, x>> : i \in ForeignIndices, x \in Pixels}
    \cup {<<i, x, j, y>> : i \in ForeignIndices, x \in Pixels, j \in ForeignIndices, y \in Pixels}

\* handleGameMessage 'frame': whatever frameData the parsed message carries is emitted
ForeignFrame(data) ==
    /\ frameData = NoFrame
    /\ frameData' = [type |-> "diff", data |-> data]
    /\ frameChanged' = {}
    /\ UNCHANGED <<hostLast, recvLast, frameRaster, shownNote, shown, shownType>>

ForeignNext ==
    \/ (\E data \in ForeignData : ForeignFrame(data)) /\ UNCHANGED <<sigVars, wsVars, negVars, pingVars, raceVars, ttlVars, pollVars, memberVars, streamVars, serverVars>>
    \/ ReceiveFrame /\ UNCHANGED <<sigVars, wsVars, negVars, pingVars, raceVars, ttlVars, pollVars, memberVars, streamVars, serverVars>>
    \/ GuestResetCache /\ UNCHANGED <<sigVars, wsVars, negVars, pingVars, raceVars, ttlVars, pollVars, memberVars, streamVars, serverVars>>

SpecForeign == CodecInit /\ [][ForeignNext]_vars

\* ---- the mailbox specification: one sender, one key, payloads numbered ----
MailboxKey == <<"ROOM01", 1>>

MailboxSend ==
    /\ sendCount < MaxSends
    /\ Send(MailboxKey[1], 2, MailboxKey[2], "offer", sendCount + 1)
    /\ sendCount' = sendCount + 1
    /\ reqParity' = 1 - reqParity

MailboxPoll ==
    /\ Poll(MailboxKey[1], MailboxKey[2])
    /\ reqParity' = 1 - reqParity

MailboxNext ==
    \/ MailboxSend /\ UNCHANGED <<wsVars, negVars, codecVars, pingVars, raceVars, ttlVars, pollVars, memberVars, streamVars, serverVars>>
    \/ MailboxPoll /\ UNCHANGED <<wsVars, negVars, codecVars, pingVars, raceVars, ttlVars, pollVars, memberVars, streamVars, serverVars>>

MailboxInit == SigInit /\ WsConstructed /\ NegConstructed /\ CodecConstructed /\ PingConstructed /\ RaceConstructed /\ TtlConstructed /\ PollConstructed /\ MemberConstructed /\ StreamConstructed /\ ServerConstructed

SpecMailbox == MailboxInit /\ [][MailboxNext]_vars

Init == SigInit /\ WsConstructed /\ NegConstructed /\ CodecConstructed /\ PingConstructed /\ RaceConstructed /\ TtlConstructed /\ PollConstructed /\ MemberConstructed /\ StreamConstructed /\ ServerConstructed

Next ==
    \/ CreateRoom /\ UNCHANGED <<wsVars, negVars, codecVars, pingVars, raceVars, ttlVars, pollVars, memberVars, streamVars, serverVars, reqParity>>
    \/ JoinRoom /\ UNCHANGED <<wsVars, negVars, codecVars, pingVars, raceVars, ttlVars, pollVars, memberVars, streamVars, serverVars, reqParity>>
    \/ SendMessage /\ UNCHANGED <<wsVars, negVars, codecVars, pingVars, raceVars, ttlVars, pollVars, memberVars, streamVars, serverVars, reqParity>>
    \/ PollMessages /\ UNCHANGED <<wsVars, negVars, codecVars, pingVars, raceVars, ttlVars, pollVars, memberVars, streamVars, serverVars, reqParity>>
    \/ LeaveRoomEdge /\ UNCHANGED <<wsVars, negVars, codecVars, pingVars, raceVars, ttlVars, pollVars, memberVars, streamVars, serverVars, reqParity>>
    \/ LeaveRoom003 /\ UNCHANGED <<wsVars, negVars, codecVars, pingVars, raceVars, ttlVars, pollVars, memberVars, streamVars, serverVars, reqParity>>

Spec == Init /\ [][Next]_vars

\* ========================================================================
\* The signaling service serving requests concurrently.  A handler awaits
\* every store operation, so another request may run between two of them:
\* each kv.get / kv.put / kv.delete is a step of its own, and what a handler
\* read stays in its locals until it writes.
\* ========================================================================
MaxRequests == 5      \* requests the service is given
Slots == {1, 2}       \* requests in flight at once
RaceCode == "ROOM01"
RaceIds == {"idA"}     \* what generateId() returns: stored, never read back by the service
Arrivals == {<<"create", 0>>, <<"join", 0>>, <<"leave", 1>>, <<"leave", 2>>,
             <<"send", 2>>, <<"poll", 1>>}

\* the handler of slot i stopped at position pc with status s
Done(r, s) == [r EXCEPT !.pc = "done", !.status = s]

\* the payload ordinals of the sent messages in a queue value
Ordinals(q) == {q[k].n : k \in 1..Len(q)} \ {0}

\* the seats whose player-joined is in a queue value
JoinedIn(q) == {q[k].playerNum : k \in {j \in 1..Len(q) : q[j].type = "player-joined"}}

\* a request arrives: handleSignaling up to the first awaited store operation
Arrive(i, endpoint, playerNum) ==
    /\ reqs[i].pc = "done"
    /\ reqCount < MaxRequests
    /\ reqCount' = reqCount + 1
    /\ IF endpoint = "send"
       THEN /\ reqs' = [reqs EXCEPT ![i] =
                           [Idle EXCEPT !.op = "send", !.pc = "pushGet", !.target = 1,
                                        !.msg = Msg("offer", 0, playerNum, sendCount + 1)]]
            /\ sendCount' = sendCount + 1
       ELSE /\ reqs' = [reqs EXCEPT ![i] =
                           [Idle EXCEPT !.op = endpoint, !.player = playerNum,
                                        !.pc = IF endpoint = "poll" THEN "popGet" ELSE "get"]]
            /\ UNCHANGED sendCount
    /\ UNCHANGED <<variant, rooms, msgs, resp, awaiting, sentLog, joinCount, reqParity,
                   closed, returned, returnedTwice, seated, seen>>

\* ---- create: existing = await kv.get(roomKey) ----
CreateGet(i) ==
    /\ reqs[i].op = "create" /\ reqs[i].pc = "get"
    /\ IF rooms[RaceCode].exists
       THEN /\ reqs' = [reqs EXCEPT ![i] = Done(@, "RoomExists")]
            /\ resp' = Resp("create", RaceCode, 0, "RoomExists", <<>>)
       ELSE /\ reqs' = [reqs EXCEPT ![i].pc = "put"]
            /\ UNCHANGED resp
    /\ UNCHANGED <<variant, rooms, msgs, awaiting, sentLog, sendCount, joinCount, reqParity,
                   reqCount, closed, returned, returnedTwice, seated, seen>>

\* ---- create: await kv.put(roomKey, room) and the response ----
CreatePut(i, id) ==
    /\ reqs[i].op = "create" /\ reqs[i].pc = "put"
    /\ rooms' = [rooms EXCEPT ![RaceCode] =
                    [exists |-> TRUE, hostId |-> id, players |-> <<1>>,
                     ids |-> [s \in GuestSeats |-> ""]]]
    /\ reqs' = [reqs EXCEPT ![i] = Done(@, "ok")]
    /\ resp' = Resp("create", RaceCode, 1, "ok", <<>>)
    /\ closed' = closed \ {RaceCode}
    /\ UNCHANGED <<variant, msgs, awaiting, sentLog, sendCount, joinCount, reqParity,
                   reqCount, returned, returnedTwice, seated, seen>>

\* ---- join: room = await kv.get(roomKey) and the seat scan ----
JoinGet(i) ==
    /\ reqs[i].op = "join" /\ reqs[i].pc = "get"
    /\ LET room == rooms[RaceCode]
           playerNum == AssignSeat(room.players)
       IN IF ~room.exists
          THEN /\ reqs' = [reqs EXCEPT ![i] = Done(@, "RoomNotFound")]
               /\ resp' = Resp("join", RaceCode, 0, "RoomNotFound", <<>>)
          ELSE IF playerNum > 4
          THEN /\ reqs' = [reqs EXCEPT ![i] = Done(@, "RoomFull")]
               /\ resp' = Resp("join", RaceCode, 0, "RoomFull", <<>>)
          ELSE /\ reqs' = [reqs EXCEPT ![i] =
                              [@ EXCEPT !.room = room, !.seat = playerNum, !.pc = "put"]]
               /\ UNCHANGED resp
    /\ UNCHANGED <<variant, rooms, msgs, awaiting, sentLog, sendCount, joinCount, reqParity,
                   reqCount, closed, returned, returnedTwice, seated, seen>>

\* the other join, if it holds the same record and has not written yet
Racing(i, j) ==
    /\ j # i
    /\ reqs[j].op = "join" /\ reqs[j].pc = "put"
    /\ reqs[j].room = reqs[i].room

\* mutant: the write-back merges the seat into the record the store holds now
JoinPutMerging(i, id) ==
    /\ reqs[i].op = "join" /\ reqs[i].pc = "put"
    /\ LET playerNum == AssignSeat(rooms[RaceCode].players)
       IN /\ rooms' = [rooms EXCEPT ![RaceCode] =
                          [@ EXCEPT !.exists = TRUE,
                                    !.players = Append(@, playerNum),
                                    !.ids[playerNum] = id]]
          /\ reqs' = [j \in Slots |->
                        IF j = i
                        THEN [reqs[i] EXCEPT !.pc = "pushGet", !.target = 1,
                                             !.seat = playerNum,
                                             !.msg = PlayerJoinedMsg(playerNum),
                                             !.raced = @ \/ \E k \in Slots : Racing(i, k)]
                        ELSE [reqs[j] EXCEPT !.raced = @ \/ Racing(i, j)]]
    /\ UNCHANGED <<variant, msgs, resp, awaiting, sentLog, sendCount, joinCount, reqParity,
                   reqCount, closed, returned, returnedTwice, seated, seen>>

\* ---- join: room.players.push(playerNum); await kv.put(roomKey, room) ----
JoinPut(i, id) ==
    /\ reqs[i].op = "join" /\ reqs[i].pc = "put"
    /\ rooms' = [rooms EXCEPT ![RaceCode] =
                    [reqs[i].room EXCEPT !.players = Append(@, reqs[i].seat),
                                         !.ids[reqs[i].seat] = id]]
    /\ reqs' = [j \in Slots |->
                  IF j = i
                  THEN [reqs[i] EXCEPT !.pc = "pushGet", !.target = 1,
                                       !.msg = PlayerJoinedMsg(reqs[i].seat),
                                       !.raced = @ \/ \E k \in Slots : Racing(i, k)]
                  ELSE [reqs[j] EXCEPT !.raced = @ \/ Racing(i, j)]]
    /\ UNCHANGED <<variant, msgs, resp, awaiting, sentLog, sendCount, joinCount, reqParity,
                   reqCount, closed, returned, returnedTwice, seated, seen>>

\* ---- leave: room = await kv.get(roomKey) ----
LeaveGet(i) ==
    /\ reqs[i].op = "leave" /\ reqs[i].pc = "get"
    /\ LET room == rooms[RaceCode]
       IN IF ~room.exists
          THEN /\ reqs' = [reqs EXCEPT ![i] = Done(@, "ok")]
               /\ resp' = Resp("leave", RaceCode, 0, "ok", <<>>)
          ELSE /\ reqs' = [reqs EXCEPT ![i] =
                              [@ EXCEPT !.room = room,
                                        !.pc = IF reqs[i].player = 1 THEN "delete" ELSE "put"]]
               /\ UNCHANGED resp
    /\ UNCHANGED <<variant, rooms, msgs, awaiting, sentLog, sendCount, joinCount, reqParity,
                   reqCount, closed, returned, returnedTwice, seated, seen>>

\* ---- leave of the host: await kv.delete(roomKey), then the loop over room.players ----
LeaveDelete(i) ==
    /\ reqs[i].op = "leave" /\ reqs[i].pc = "delete"
    /\ rooms' = [rooms EXCEPT ![RaceCode] = NoRoom]
    /\ closed' = closed \cup {RaceCode}
    /\ LET guests == filterOut(reqs[i].room.players, 1)
       IN IF guests = <<>>
          THEN /\ reqs' = [reqs EXCEPT ![i] = Done(@, "ok")]
               /\ resp' = Resp("leave", RaceCode, 0, "ok", <<>>)
          ELSE /\ reqs' = [reqs EXCEPT ![i] =
                              [@ EXCEPT !.pc = "pushGet", !.target = Head(guests),
                                        !.todo = Tail(guests), !.msg = HostLeftMsg("edge")]]
               /\ UNCHANGED resp
    /\ UNCHANGED <<variant, msgs, awaiting, sentLog, sendCount, joinCount, reqParity,
                   reqCount, returned, returnedTwice, seated, seen>>

\* ---- leave of a guest: room.players = filter(...); await kv.put(roomKey, room) ----
LeavePut(i) ==
    /\ reqs[i].op = "leave" /\ reqs[i].pc = "put"
    /\ rooms' = [rooms EXCEPT ![RaceCode] =
                    [reqs[i].room EXCEPT !.players = filterOut(@, reqs[i].player)]]
    /\ reqs' = [reqs EXCEPT ![i] =
                   [@ EXCEPT !.pc = "pushGet", !.target = 1,
                             !.msg = PlayerLeftMsg(reqs[i].player)]]
    /\ UNCHANGED <<variant, msgs, resp, awaiting, sentLog, sendCount, joinCount, reqParity,
                   reqCount, closed, returned, returnedTwice, seated, seen>>

\* ---- pushMessage: existing = await kv.get(queueKey) ----
PushGet(i) ==
    /\ reqs[i].pc = "pushGet"
    /\ reqs' = [reqs EXCEPT ![i] =
                   [@ EXCEPT !.messages = msgs[<<RaceCode, reqs[i].target>>],
                             !.pc = "pushPut"]]
    /\ UNCHANGED <<variant, rooms, msgs, resp, awaiting, sentLog, sendCount, joinCount,
                   reqParity, reqCount, closed, returned, returnedTwice, seated, seen>>

\* ---- pushMessage: messages.push(message); await kv.put(queueKey, messages); then the
\* ---- next guest of the host's loop, or the handler's response
PushPut(i) ==
    /\ reqs[i].pc = "pushPut"
    /\ msgs' = [msgs EXCEPT ![<<RaceCode, reqs[i].target>>] =
                   pushMessage(reqs[i].messages, reqs[i].msg)]
    /\ IF reqs[i].todo # <<>>
       THEN /\ reqs' = [reqs EXCEPT ![i] =
                           [@ EXCEPT !.pc = "pushGet", !.target = Head(reqs[i].todo),
                                     !.todo = Tail(reqs[i].todo)]]
            /\ UNCHANGED resp
       ELSE /\ reqs' = [reqs EXCEPT ![i] = Done(@, "ok")]
            /\ resp' = Resp(reqs[i].op, RaceCode,
                            IF reqs[i].op = "join" THEN reqs[i].seat ELSE 0, "ok",
                            IF reqs[i].op = "join"
                            THEN Append(reqs[i].room.players, reqs[i].seat) ELSE <<>>)
    /\ seated' = IF reqs[i].op = "join" /\ reqs[i].todo = <<>>
                 THEN seated \cup {reqs[i].seat} ELSE seated
    /\ UNCHANGED <<variant, rooms, awaiting, sentLog, sendCount, joinCount, reqParity,
                   reqCount, closed, returned, returnedTwice, seen>>

\* ---- popMessages: existing = await kv.get(queueKey); if (existing === undefined) return [] ----
PopGet(i) ==
    /\ reqs[i].op = "poll" /\ reqs[i].pc = "popGet"
    /\ LET existing == msgs[<<RaceCode, reqs[i].player>>]
       IN IF existing = <<>>
          THEN /\ reqs' = [reqs EXCEPT ![i] = Done(@, "ok")]
               /\ resp' = Resp("poll", RaceCode, reqs[i].player, "ok", <<>>)
          ELSE /\ reqs' = [reqs EXCEPT ![i] =
                              [@ EXCEPT !.messages = existing, !.pc = "popDelete"]]
               /\ UNCHANGED resp
    /\ UNCHANGED <<variant, rooms, msgs, awaiting, sentLog, sendCount, joinCount, reqParity,
                   reqCount, closed, returned, returnedTwice, seated, seen>>

\* ---- popMessages: await kv.delete(queueKey); return existing ----
PopDelete(i) ==
    /\ reqs[i].op = "poll" /\ reqs[i].pc = "popDelete"
    /\ msgs' = [msgs EXCEPT ![<<RaceCode, reqs[i].player>>] = <<>>]
    /\ reqs' = [reqs EXCEPT ![i] = Done(@, "ok")]
    /\ resp' = Resp("poll", RaceCode, reqs[i].player, "ok", reqs[i].messages)
    /\ returned' = returned \cup Ordinals(reqs[i].messages)
    /\ returnedTwice' = returnedTwice \cup (returned \cap Ordinals(reqs[i].messages))
    /\ seen' = IF reqs[i].player = 1 THEN seen \cup JoinedIn(reqs[i].messages) ELSE seen
    /\ UNCHANGED <<variant, rooms, awaiting, sentLog, sendCount, joinCount, reqParity,
                   reqCount, closed, seated>>

RaceInit ==
    /\ SigIdle /\ WsConstructed /\ NegConstructed /\ CodecConstructed /\ PingConstructed
    /\ RaceConstructed /\ TtlConstructed /\ PollConstructed /\ MemberConstructed /\ StreamConstructed /\ ServerConstructed

RaceNext ==
    \/ (\E i \in Slots, a \in Arrivals : Arrive(i, a[1], a[2]))
           /\ UNCHANGED <<wsVars, negVars, codecVars, pingVars, ttlVars, pollVars, memberVars, streamVars, serverVars>>
    \/ (\E i \in Slots : CreateGet(i)) /\ UNCHANGED <<wsVars, negVars, codecVars, pingVars, ttlVars, pollVars, memberVars, streamVars, serverVars>>
    \/ (\E i \in Slots, id \in RaceIds : CreatePut(i, id))
           /\ UNCHANGED <<wsVars, negVars, codecVars, pingVars, ttlVars, pollVars, memberVars, streamVars, serverVars>>
    \/ (\E i \in Slots : JoinGet(i)) /\ UNCHANGED <<wsVars, negVars, codecVars, pingVars, ttlVars, pollVars, memberVars, streamVars, serverVars>>
    \/ (\E i \in Slots, id \in RaceIds : JoinPut(i, id))
           /\ UNCHANGED <<wsVars, negVars, codecVars, pingVars, ttlVars, pollVars, memberVars, streamVars, serverVars>>
    \/ (\E i \in Slots : LeaveGet(i)) /\ UNCHANGED <<wsVars, negVars, codecVars, pingVars, ttlVars, pollVars, memberVars, streamVars, serverVars>>
    \/ (\E i \in Slots : LeaveDelete(i)) /\ UNCHANGED <<wsVars, negVars, codecVars, pingVars, ttlVars, pollVars, memberVars, streamVars, serverVars>>
    \/ (\E i \in Slots : LeavePut(i)) /\ UNCHANGED <<wsVars, negVars, codecVars, pingVars, ttlVars, pollVars, memberVars, streamVars, serverVars>>
    \/ (\E i \in Slots : PushGet(i)) /\ UNCHANGED <<wsVars, negVars, codecVars, pingVars, ttlVars, pollVars, memberVars, streamVars, serverVars>>
    \/ (\E i \in Slots : PushPut(i)) /\ UNCHANGED <<wsVars, negVars, codecVars, pingVars, ttlVars, pollVars, memberVars, streamVars, serverVars>>
    \/ (\E i \in Slots : PopGet(i)) /\ UNCHANGED <<wsVars, negVars, codecVars, pingVars, ttlVars, pollVars, memberVars, streamVars, serverVars>>
    \/ (\E i \in Slots : PopDelete(i)) /\ UNCHANGED <<wsVars, negVars, codecVars, pingVars, ttlVars, pollVars, memberVars, streamVars, serverVars>>

SpecRace == RaceInit /\ [][RaceNext]_vars

\* ---- guests and their host: a guest sends only after its join has answered ----
GuestsNext ==
    \/ (\E i \in Slots : Arrive(i, "create", 0) \/ Arrive(i, "join", 0) \/ Arrive(i, "poll", 1))
           /\ UNCHANGED <<wsVars, negVars, codecVars, pingVars, ttlVars, pollVars, memberVars, streamVars, serverVars>>
    \/ (\E i \in Slots, p \in seated : Arrive(i, "send", p))
           /\ UNCHANGED <<wsVars, negVars, codecVars, pingVars, ttlVars, pollVars, memberVars, streamVars, serverVars>>
    \/ (\E i \in Slots : CreateGet(i)) /\ UNCHANGED <<wsVars, negVars, codecVars, pingVars, ttlVars, pollVars, memberVars, streamVars, serverVars>>
    \/ (\E i \in Slots, id \in RaceIds : CreatePut(i, id))
           /\ UNCHANGED <<wsVars, negVars, codecVars, pingVars, ttlVars, pollVars, memberVars, streamVars, serverVars>>
    \/ (\E i \in Slots : JoinGet(i)) /\ UNCHANGED <<wsVars, negVars, codecVars, pingVars, ttlVars, pollVars, memberVars, streamVars, serverVars>>
    \/ (\E i \in Slots, id \in RaceIds : JoinPut(i, id))
           /\ UNCHANGED <<wsVars, negVars, codecVars, pingVars, ttlVars, pollVars, memberVars, streamVars, serverVars>>
    \/ (\E i \in Slots : PushGet(i)) /\ UNCHANGED <<wsVars, negVars, codecVars, pingVars, ttlVars, pollVars, memberVars, streamVars, serverVars>>
    \/ (\E i \in Slots : PushPut(i)) /\ UNCHANGED <<wsVars, negVars, codecVars, pingVars, ttlVars, pollVars, memberVars, streamVars, serverVars>>
    \/ (\E i \in Slots : PopGet(i)) /\ UNCHANGED <<wsVars, negVars, codecVars, pingVars, ttlVars, pollVars, memberVars, streamVars, serverVars>>
    \/ (\E i \in Slots : PopDelete(i)) /\ UNCHANGED <<wsVars, negVars, codecVars, pingVars, ttlVars, pollVars, memberVars, streamVars, serverVars>>

SpecGuests == RaceInit /\ [][GuestsNext]_vars

\* ========================================================================
\* Expiry of stored records: what each kv.put asks the store for
\* ========================================================================
RoomTtl == 3600       \* part_000: kv.put(roomKey, ..., { expiration: 3600 })
QueueTtl == 300       \* part_000: kv.put(queueKey, ..., { expiration: 300 })
TtlVariants == {"edge", "p000"}
Spans == {300, 3300}  \* the lengths of time that pass in one step

\* the expiry a write asks for, 0 for none: src/aliyun-edge/signaling.js calls
\* kv.put(key, value) with no third argument
roomExpiry(v) == IF v = "p000" THEN RoomTtl ELSE 0
queueExpiry(v) == IF v = "p000" THEN QueueTtl ELSE 0

Aged(a, d, cap) == IF a + d > cap THEN cap ELSE a + d

\* d seconds pass without a request; the store drops every record whose expiry is due
Pass(d) ==
    /\ \/ \E c \in Codes : roomAge[c] < RoomTtl
       \/ \E k \in Keys : queueAge[k] < QueueTtl
    /\ roomAge' = [c \in Codes |-> Aged(roomAge[c], d, RoomTtl)]
    /\ queueAge' = [k \in Keys |-> Aged(queueAge[k], d, QueueTtl)]
    /\ rooms' = [c \in Codes |->
                    IF roomExpiry(variant) > 0 /\ roomAge'[c] >= roomExpiry(variant)
                    THEN NoRoom ELSE rooms[c]]
    /\ msgs' = [k \in Keys |->
                   IF queueExpiry(variant) > 0 /\ queueAge'[k] >= queueExpiry(variant)
                   THEN <<>> ELSE msgs[k]]
    /\ sentLog' = [k \in Keys |-> IF msgs'[k] = msgs[k] THEN sentLog[k] ELSE <<>>]
    /\ joinCount' = [c \in Codes |-> IF rooms'[c] = rooms[c] THEN joinCount[c] ELSE -1]
    /\ UNCHANGED <<variant, resp, awaiting, sendCount, reqParity>>

\* create: the record is written when none existed
ExpCreate(code, id) ==
    /\ Create(code, id)
    /\ roomAge' = [roomAge EXCEPT ![code] = IF rooms[code].exists THEN @ ELSE 0]
    /\ reqParity' = 1 - reqParity
    /\ UNCHANGED queueAge

\* join: the record and the host's queue are written when a seat was given
ExpJoin(code, id) ==
    /\ Join(code, id)
    /\ LET wrote == rooms[code].exists /\ AssignSeat(rooms[code].players) <= 4
       IN /\ roomAge' = [roomAge EXCEPT ![code] = IF wrote THEN 0 ELSE @]
          /\ queueAge' = [queueAge EXCEPT ![<<code, 1>>] = IF wrote THEN 0 ELSE @]
    /\ reqParity' = 1 - reqParity

\* send: pushMessage writes the queue
ExpSend(code, fromPlayer, toPlayer) ==
    /\ RelaySend(code, fromPlayer, toPlayer, "offer")
    /\ queueAge' = [queueAge EXCEPT ![<<code, toPlayer>>] = 0]
    /\ reqParity' = 1 - reqParity
    /\ UNCHANGED roomAge

\* poll: popMessages writes nothing
ExpPoll(code, playerNum) ==
    /\ Poll(code, playerNum)
    /\ reqParity' = 1 - reqParity
    /\ UNCHANGED <<roomAge, queueAge>>

ExpiryInit ==
    /\ variant \in TtlVariants /\ SigStoreInit
    /\ WsConstructed /\ NegConstructed /\ CodecConstructed /\ PingConstructed
    /\ RaceConstructed /\ TtlConstructed /\ PollConstructed /\ MemberConstructed /\ StreamConstructed /\ ServerConstructed

ExpiryNext ==
    \/ (\E d \in Spans : Pass(d))
           /\ UNCHANGED <<wsVars, negVars, codecVars, pingVars, raceVars, pollVars, memberVars, streamVars, serverVars>>
    \/ (\E code \in Codes, id \in Ids : ExpCreate(code, id))
           /\ UNCHANGED <<wsVars, negVars, codecVars, pingVars, raceVars, pollVars, memberVars, streamVars, serverVars>>
    \/ (\E code \in Codes, id \in GuestIds : ExpJoin(code, id))
           /\ UNCHANGED <<wsVars, negVars, codecVars, pingVars, raceVars, pollVars, memberVars, streamVars, serverVars>>
    \/ (\E code \in Codes : ExpSend(code, 2, 1))
           /\ UNCHANGED <<wsVars, negVars, codecVars, pingVars, raceVars, pollVars, memberVars, streamVars, serverVars>>
    \/ (\E code \in Codes : ExpPoll(code, 1))
           /\ UNCHANGED <<wsVars, negVars, codecVars, pingVars, raceVars, pollVars, memberVars, streamVars, serverVars>>

SpecExpiry == ExpiryInit /\ [][ExpiryNext]_vars

\* ========================================================================
\* RoomManager (polling version): startPolling's interval callback.
\* setInterval starts the async callback every 500 ms whether or not an
\* earlier invocation has returned; an invocation stops at every await.
\* ========================================================================
MaxPolls == 3         \* polls the client issues
MaxMail == 2          \* messages waiting in the mailbox at once
PollSlots == {1, 2}   \* invocations of the callback alive at once
\* 'offer' is handled with awaits inside (handleOffer), 'player-left' without
Kinds == {"offer", "player-left"}
Awaits(kind) == kind = "offer"

\* a peer's message reaches the mailbox
MailArrives(kind) ==
    /\ Len(mailbox) < MaxMail
    /\ polls < MaxPolls
    /\ mailbox' = Append(mailbox, kind)
    /\ UNCHANGED <<callbacks, polls>>

\* the interval fires: a new invocation issues signalingRequest('poll')
IntervalFires(i) ==
    /\ callbacks[i].pc = "none"
    /\ polls + Cardinality({j \in PollSlots : callbacks[j].pc = "fetch"}) < MaxPolls
    /\ callbacks' = [callbacks EXCEPT ![i] = [NoCallback EXCEPT !.pc = "fetch"]]
    /\ UNCHANGED <<mailbox, polls>>

\* what is left of an invocation after the message at the head of its batch is handled
Advance(cb) ==
    IF Tail(cb.batch) = <<>> THEN NoCallback
    ELSE [cb EXCEPT !.batch = Tail(cb.batch), !.busy = FALSE, !.started = TRUE]

\* the poll is answered: result.messages is the mailbox, which the service empties
PollAnswered(i) ==
    /\ callbacks[i].pc = "fetch"
    /\ polls' = polls + 1
    /\ mailbox' = <<>>
    /\ callbacks' = [callbacks EXCEPT ![i] =
                        IF mailbox = <<>> THEN NoCallback
                        ELSE [@ EXCEPT !.pc = "handle", !.no = polls + 1, !.batch = mailbox]]

\* await this.handleSignalingMessage(msg) for the next message of the batch: a handler
\* without an await runs to its end, one with an await stops inside
HandleStart(i) ==
    /\ callbacks[i].pc = "handle" /\ ~callbacks[i].busy
    /\ callbacks' = [callbacks EXCEPT ![i] =
                        IF Awaits(Head(@.batch))
                        THEN [@ EXCEPT !.busy = TRUE, !.started = TRUE]
                        ELSE Advance(@)]
    /\ UNCHANGED <<mailbox, polls>>

\* the awaited handler returns
HandleFinish(i) ==
    /\ callbacks[i].pc = "handle" /\ callbacks[i].busy
    /\ callbacks' = [callbacks EXCEPT ![i] = Advance(@)]
    /\ UNCHANGED <<mailbox, polls>>

PollInit ==
    /\ SigIdle /\ WsConstructed /\ NegConstructed /\ CodecConstructed /\ PingConstructed
    /\ RaceConstructed /\ TtlConstructed /\ PollConstructed /\ MemberConstructed /\ StreamConstructed /\ ServerConstructed

PollNext ==
    \/ (\E kind \in Kinds : MailArrives(kind))
           /\ UNCHANGED <<sigVars, wsVars, negVars, codecVars, pingVars, raceVars, ttlVars, memberVars, streamVars, serverVars>>
    \/ (\E i \in PollSlots : IntervalFires(i))
           /\ UNCHANGED <<sigVars, wsVars, negVars, codecVars, pingVars, raceVars, ttlVars, memberVars, streamVars, serverVars>>
    \/ (\E i \in PollSlots : PollAnswered(i))
           /\ UNCHANGED <<sigVars, wsVars, negVars, codecVars, pingVars, raceVars, ttlVars, memberVars, streamVars, serverVars>>
    \/ (\E i \in PollSlots : HandleStart(i))
           /\ UNCHANGED <<sigVars, wsVars, negVars, codecVars, pingVars, raceVars, ttlVars, memberVars, streamVars, serverVars>>
    \/ (\E i \in PollSlots : HandleFinish(i))
           /\ UNCHANGED <<sigVars, wsVars, negVars, codecVars, pingVars, raceVars, ttlVars, memberVars, streamVars, serverVars>>

SpecPoll == PollInit /\ [][PollNext]_vars

\* ========================================================================
\* RoomManager (WebSocket version): the listeners of the socket.  onmessage
\* gives every message to handleWsMessage; createRoom() / joinRoom() add a
\* second 'message' listener to the same socket, which is on it from the
\* request until a 'created' / 'joined' / 'error' message or the socket's end.
\* ========================================================================
\* the calls of handleWsMessage one message of type t causes
dispatches(t) ==
    1 + (IF awaitingReply # "none" /\ t \in {"created", "joined"} THEN 1 ELSE 0)

\* a step in which no message arrives
Quiet(A) == A /\ lastMessage' = NoMessage /\ UNCHANGED closedNotice

\* 'created' / 'joined' arrives
MsgReplyOk(seat) ==
    /\ WsReplyOk(seat)
    /\ lastMessage' = LET t == IF seat = 1 THEN "created" ELSE "joined"
                      IN Received(t, dispatches(t))
    /\ closedNotice' = FALSE

\* 'error' arrives
MsgReplyError ==
    /\ WsReplyError
    /\ lastMessage' = Received("error", dispatches("error"))
    /\ UNCHANGED closedNotice

\* 'room-closed' arrives
MsgRoomClosed ==
    /\ WsRoomClosed
    /\ lastMessage' = Received("room-closed", dispatches("room-closed"))
    /\ closedNotice' = TRUE

\* disconnect(): the client leaves
MsgDisconnect ==
    /\ WsDisconnect
    /\ lastMessage' = NoMessage
    /\ closedNotice' = FALSE

DispatchInit == ReconnInit

DispatchNext ==
    \/ Quiet(WsCreateRoom) /\ UNCHANGED <<sigVars, negVars, codecVars, pingVars, raceVars, ttlVars, pollVars, streamVars, serverVars>>
    \/ Quiet(WsJoinRoom) /\ UNCHANGED <<sigVars, negVars, codecVars, pingVars, raceVars, ttlVars, pollVars, streamVars, serverVars>>
    \/ Quiet(WsOpen) /\ UNCHANGED <<sigVars, negVars, codecVars, pingVars, raceVars, ttlVars, pollVars, streamVars, serverVars>>
    \/ Quiet(WsConnectFail) /\ UNCHANGED <<sigVars, negVars, codecVars, pingVars, raceVars, ttlVars, pollVars, streamVars, serverVars>>
    \/ Quiet(WsConnectTimeout) /\ UNCHANGED <<sigVars, negVars, codecVars, pingVars, raceVars, ttlVars, pollVars, streamVars, serverVars>>
    \/ Quiet(WsClose) /\ UNCHANGED <<sigVars, negVars, codecVars, pingVars, raceVars, ttlVars, pollVars, streamVars, serverVars>>
    \/ Quiet(ReconnectTimerFires) /\ UNCHANGED <<sigVars, negVars, codecVars, pingVars, raceVars, ttlVars, pollVars, streamVars, serverVars>>
    \/ Quiet(Elapse) /\ UNCHANGED <<sigVars, negVars, codecVars, pingVars, raceVars, ttlVars, pollVars, streamVars, serverVars>>
    \/ Quiet(WsReplyTimeout) /\ UNCHANGED <<sigVars, negVars, codecVars, pingVars, raceVars, ttlVars, pollVars, streamVars, serverVars>>
    \/ (\E seat \in Seats : MsgReplyOk(seat)) /\ UNCHANGED <<sigVars, negVars, codecVars, pingVars, raceVars, ttlVars, pollVars, streamVars, serverVars>>
    \/ MsgReplyError /\ UNCHANGED <<sigVars, negVars, codecVars, pingVars, raceVars, ttlVars, pollVars, streamVars, serverVars>>
    \/ MsgRoomClosed /\ UNCHANGED <<sigVars, negVars, codecVars, pingVars, raceVars, ttlVars, pollVars, streamVars, serverVars>>
    \/ MsgDisconnect /\ UNCHANGED <<sigVars, negVars, codecVars, pingVars, raceVars, ttlVars, pollVars, streamVars, serverVars>>

SpecDispatch == DispatchInit /\ [][DispatchNext]_vars

\* ========================================================================
\* NESEmulator: a stream of frames from the first frame on, every frame sent
\* on an open channel and decoded before the next one is produced
\* ========================================================================
\* onFrameReady on the host with the channel open
StreamFrame(frameBuffer) ==
    /\ HostFrame(frameBuffer, TRUE)
    /\ oddChanged' = IF compressFrame(frameBuffer, hostLast).type = "full"
                     THEN {}
                     ELSE oddChanged \cup
                          {i \in Indices : i % 2 = 1 /\ frameBuffer[i] # hostLast[i]}

\* receiveFrame on the guest
StreamReceive ==
    /\ ReceiveFrame
    /\ UNCHANGED oddChanged

StreamNext ==
    \/ (\E f \in Rasters : StreamFrame(f)) /\ UNCHANGED <<sigVars, wsVars, negVars, pingVars, raceVars, ttlVars, pollVars, memberVars, serverVars>>
    \/ StreamReceive /\ UNCHANGED <<sigVars, wsVars, negVars, pingVars, raceVars, ttlVars, pollVars, memberVars, serverVars>>

SpecStream == CodecInit /\ [][StreamNext]_vars

\* ========================================================================
\* The in-memory WebSocket signaling server (src/unnamed/part_004)
\* ========================================================================
\* handleWebSocket: server.accept()
MemAccept(w) ==
    /\ readyState[w] = "none"
    /\ readyState' = [readyState EXCEPT ![w] = "open"]
    /\ UNCHANGED <<memRooms, wsToRoom, disconnected>>

\* handleCreateRoom(ws, {roomCode})
handleCreateRoom(w, code) ==
    /\ readyState[w] = "open"
    /\ ~memRooms[code].exists
    /\ memRooms' = [memRooms EXCEPT ![code] =
                        [exists |-> TRUE, hostWs |-> w,
                         guests |-> [n \in 2..4 |-> NoSocket], players |-> {1}]]
    /\ wsToRoom' = [wsToRoom EXCEPT ![w] = [roomCode |-> code, playerNum |-> 1]]
    /\ UNCHANGED <<readyState, disconnected>>

\* let playerNum = 2; while (room.players.has(playerNum) && playerNum <= 4) playerNum++
MemSeat(room) ==
    IF 2 \notin room.players THEN 2
    ELSE IF 3 \notin room.players THEN 3
    ELSE IF 4 \notin room.players THEN 4 ELSE 5

\* handleJoinRoom(ws, {roomCode})
handleJoinRoom(w, code) ==
    /\ readyState[w] = "open"
    /\ memRooms[code].exists
    /\ MemSeat(memRooms[code]) <= 4
    /\ LET playerNum == MemSeat(memRooms[code])
       IN /\ memRooms' = [memRooms EXCEPT
                              ![code].guests[playerNum] = w,
                              ![code].players = @ \cup {playerNum}]
          /\ wsToRoom' = [wsToRoom EXCEPT ![w] = [roomCode |-> code, playerNum |-> playerNum]]
    /\ UNCHANGED <<readyState, disconnected>>

\* the socket's 'close' event: handleDisconnect(ws)
handleDisconnect(w) ==
    /\ readyState[w] \in {"open", "closing"}
    /\ disconnected' = disconnected \cup {w}
    /\ wsToRoom' = [wsToRoom EXCEPT ![w] = NoInfo]
    /\ LET info == wsToRoom[w]
           room == memRooms[info.roomCode]
       IN IF info = NoInfo \/ ~room.exists
          THEN /\ readyState' = [readyState EXCEPT ![w] = "closed"]
               /\ UNCHANGED memRooms
          ELSE IF info.playerNum = 1
          THEN \* guestWs.close() for every open guest; rooms.delete(roomCode)
               /\ readyState' =
                      [x \in Sockets |->
                          IF x = w THEN "closed"
                          ELSE IF readyState[x] = "open"
                                  /\ \E n \in 2..4 : room.guests[n] = x
                               THEN "closing"
                               ELSE readyState[x]]
               /\ memRooms' = [memRooms EXCEPT ![info.roomCode] = NoMemRoom]
          ELSE \* room.players.delete(playerNum); room.guests.delete(playerNum)
               /\ readyState' = [readyState EXCEPT ![w] = "closed"]
               /\ memRooms' = [memRooms EXCEPT
                                  ![info.roomCode].players = @ \ {info.playerNum},
                                  ![info.roomCode].guests[info.playerNum] = NoSocket]

ServerNext ==
    \/ (\E w \in Sockets : MemAccept(w)) /\ UNCHANGED <<sigVars, wsVars, negVars, codecVars, pingVars, raceVars, ttlVars, pollVars, memberVars, streamVars>>
    \/ (\E w \in Sockets, c \in MemCodes : handleCreateRoom(w, c)) /\ UNCHANGED <<sigVars, wsVars, negVars, codecVars, pingVars, raceVars, ttlVars, pollVars, memberVars, streamVars>>
    \/ (\E w \in Sockets, c \in MemCodes : handleJoinRoom(w, c)) /\ UNCHANGED <<sigVars, wsVars, negVars, codecVars, pingVars, raceVars, ttlVars, pollVars, memberVars, streamVars>>
    \/ (\E w \in Sockets : handleDisconnect(w)) /\ UNCHANGED <<sigVars, wsVars, negVars, codecVars, pingVars, raceVars, ttlVars, pollVars, memberVars, streamVars>>

SpecServer == CodecInit /\ [][ServerNext]_vars

\* ========================================================================
\* Claims about the signaling service
\* ========================================================================
NoRepeat(s) == \A i, j \in 1..Len(s) : s[i] = s[j] => i = j

Min(S) == CHOOSE x \in S : \A y \in S : x <= y

Count(s, m) == Cardinality({i \in 1..Len(s) : s[i] = m})

HasType(s, t) == \E i \in 1..Len(s) : s[i].type = t

\* C1: after a create and N (0..3) successful joins on the room, with no leave in
\* between, the seat list has exactly N+1 entries, contains seat 1 and repeats no seat.
C1_SeatsAfterNJoins ==
    \A c \in Codes :
        (rooms[c].exists /\ joinCount[c] \in 0..3) =>
            /\ Len(rooms[c].players) = joinCount[c] + 1
            /\ includes(rooms[c].players, 1)
            /\ NoRepeat(rooms[c].players)

C1_Witness == \E c \in Codes : rooms[c].exists /\ joinCount[c] = 3

\* C2: a successful join assigns the lowest seat of {2,3,4} that is not in the seat
\* list at the moment of the join, a seat freed by an earlier leave included.
C2_LowestFreeSeat ==
    [][\A c \in Codes :
          (resp'.op = "join" /\ resp'.status = "ok" /\ resp'.code = c) =>
              /\ GuestSeats \ Range(rooms[c].players) # {}
              /\ resp'.seat = Min(GuestSeats \ Range(rooms[c].players))
              /\ rooms'[c].players = Append(rooms[c].players, resp'.seat)]_vars

\* seat 2 was freed while seat 3 stayed, and the next joiner got seat 2
C2_Witness ==
    /\ resp.op = "join" /\ resp.status = "ok" /\ resp.seat = 2
    /\ \E c \in Codes : rooms[c].players = <<1, 3, 2>>

\* C3: a join on a room that holds seats 1, 2, 3 and 4 returns room-full, leaves the
\* room record unchanged and enqueues no player-joined message.
C3_FullRoomRejects ==
    [][\A c \in Codes :
          (resp'.op = "join" /\ resp'.code = c /\ rooms[c].exists
              /\ Range(rooms[c].players) = Seats) =>
              /\ resp'.status = "RoomFull"
              /\ rooms' = rooms
              /\ msgs' = msgs]_vars

C3_Witness ==
    /\ resp.op = "join" /\ resp.status = "RoomFull"
    /\ \E c \in Codes : Range(rooms[c].players) = Seats

\* C4: after the host leaves a room with guests, the first receive of each guest
\* returns a room-closed message, and a join on the code that finds no record fails
\* with room-not-found.
C4_HostLeaveClosesRoom ==
    [][/\ (resp'.op = "poll" /\ <<resp'.code, resp'.seat>> \in awaiting) =>
              HasType(resp'.messages, "room-closed")
       /\ \A c \in Codes :
              (resp'.op = "join" /\ resp'.code = c /\ ~rooms[c].exists) =>
                  resp'.status = "RoomNotFound"]_vars

\* C5: a stored queue never holds more than 50 messages, and it holds the most
\* recently pushed ones in the order they were pushed (the oldest is dropped first).
C5_QueueBound ==
    \A k \in Keys :
        /\ Len(msgs[k]) <= QueueMax
        /\ msgs[k] = LastN(sentLog[k], QueueMax)

\* 51 sends without a receive: the queue holds payloads 2..51
C5_Witness ==
    /\ Len(sentLog[MailboxKey]) = QueueMax + 1
    /\ Len(msgs[MailboxKey]) = QueueMax
    /\ msgs[MailboxKey][1].n = sentLog[MailboxKey][2].n
    /\ msgs[MailboxKey][QueueMax].n = sendCount

\* C6: with nothing in between, the receive after a send returns the sent message
\* exactly once, and a receive right after a receive returns the empty sequence.
C6_SendThenReceive ==
    [][/\ (resp.op = "send" /\ resp'.op = "poll") =>
              /\ Len(resp'.messages) >= 1
              /\ resp'.messages[Len(resp'.messages)].n = sendCount
              /\ Cardinality({i \in 1..Len(resp'.messages) :
                                 resp'.messages[i].n = sendCount}) = 1
       /\ (resp.op = "poll" /\ resp'.op = "poll") => resp'.messages = <<>>]_vars

C6_Witness ==
    /\ resp.op = "poll" /\ Len(resp.messages) >= 1
    /\ resp.messages[Len(resp.messages)].n = sendCount
    /\ msgs[MailboxKey] = <<>>

\* ========================================================================
\* Claims about the reconnection controller
\* ========================================================================
ExpectedDelays == <<1000, 2000, 4000, 8000, 10000>>

\* C7: while the client is a room member, the delays scheduled for consecutive
\* failed reconnections are 1000, 2000, 4000, 8000 and 10000 ms, in that order.
C7_BackoffDelays ==
    /\ Len(delayLog) <= Len(ExpectedDelays)
    /\ \A i \in 1..Len(delayLog) : delayLog[i] = ExpectedDelays[i]

\* five reconnections were scheduled in a row and the fifth attempt has been made
C7_Witness ==
    /\ roomCode # ""
    /\ delayLog = ExpectedDelays
    /\ attemptsMade = maxReconnectAttempts

\* the fifth attempt after a transport loss has failed
Exhausted == roomCode # "" /\ ws = "closed" /\ attemptsMade = maxReconnectAttempts

\* C8: at most 5 reconnection attempts follow a transport loss; once the fifth has
\* failed, exactly one terminal error has been reported and no further attempt is
\* scheduled or started.
C8_AtMostFiveAttempts ==
    /\ [](/\ attemptsMade <= maxReconnectAttempts
          /\ lossErrors <= 1
          /\ Exhausted => (lossErrors = 1 /\ reconnectTimer = 0))
    /\ [][Exhausted => (reconnectTimer' = 0 /\ ws' # "connecting" /\ lossErrors' <= 1)]_vars

C8_Witness == Exhausted /\ lossErrors = 1 /\ wsReconnectAttempts = maxReconnectAttempts

\* ========================================================================
\* Claims about the negotiation handlers
\* ========================================================================
\* C9: an answer for a pairing that is not in the offer-sent state (no connection,
\* or a connection that is not in have-local-offer) is ignored: the pairing's state
\* does not change and no exception escapes the message handler.
C9_StrayAnswerIgnored ==
    [][\A p \in Seats :
          (handled'.type = "answer" /\ handled'.seat = p
             /\ peerConnections[p] # "have-local-offer") =>
              /\ peerConnections'[p] = peerConnections[p]
              /\ ~escaped']_vars

C11_DiffFrameDecode ==
    [][(frameData.type = "diff" /\ frameData' = NoFrame /\ recvLast # NoBuffer) =>
          /\ \A i \in Indices :
                shown'[i] = IF i \in frameChanged THEN frameRaster[i] ELSE recvLast[i]
          /\ recvLast' = shown']_vars

\* a diff frame with a pair was decoded onto a retained buffer that differed from the
\* host's previous raster: the result has the changed pixel and is not the raster
C11_Witness ==
    /\ frameData = NoFrame /\ shownType = "diff"
    /\ shownNote.retained /\ shownNote.pairs >= 1
    /\ recvLast = shown
    /\ shown # frameRaster
    /\ \E i \in Indices : i % 2 = 1 /\ shown[i] # shown[i - 1]

\* C12: compressFrame emits a full frame exactly when there is no previous frame or
\* more than half of the raster's pixels changed since the previous frame, and a
\* diff frame otherwise.
C12_FullFrameThreshold ==
    [][(frameData = NoFrame /\ frameData' # NoFrame) =>
          (frameData'.type = "full" <=>
              \/ hostLast = NoBuffer
              \/ 2 * Cardinality({i \in Indices : hostLast'[i] # hostLast[i]}) > FrameSize)]_vars

\* C13: in every pairing only the host creates and sends an offer: a guest never
\* sends an offer and the host never sends an answer.
C13_HostIsOfferer ==
    /\ sigOut.type = "offer" => isHost
    /\ sigOut.type = "answer" => ~isHost

\* ========================================================================
\* Claims about the signaling service's error cases
\* ========================================================================
\* C14: a join on a code without a room record returns room-not-found, creates no
\* record and enqueues nothing.
C14_JoinMissingRoom ==
    [][\A c \in Codes :
          (resp'.op = "join" /\ resp'.code = c /\ ~rooms[c].exists) =>
              /\ resp'.status = "RoomNotFound"
              /\ rooms' = rooms
              /\ msgs' = msgs]_vars

\* a join was refused: there is no record for the code and every mailbox is empty
C14_Witness ==
    \E c \in Codes :
        /\ resp.op = "join" /\ resp.code = c /\ resp.status = "RoomNotFound"
        /\ ~rooms[c].exists
        /\ \A k \in Keys : msgs[k] = <<>>

C16_LeaveNoOp ==
    [][\A c \in Codes :
          (resp'.op = "leave" /\ resp'.code = c /\ rooms'[c] = rooms[c]) =>
              /\ resp'.status = "ok"
              /\ msgs' = msgs]_vars

\* C17: when a non-host seat s leaves a room, s is removed from the seat list and the
\* other seats and the host token stay as they were, seat 1's mailbox receives a
\* player-left message naming s, and the mailbox of seat s is empty afterwards.
C17_GuestLeave ==
    [][\A c \in Codes, s \in GuestSeats :
          (/\ resp'.op = "leave" /\ resp'.code = c
           /\ rooms[c].exists /\ rooms'[c].exists
           /\ Range(rooms[c].players) \ Range(rooms'[c].players) = {s}) =>
              /\ rooms'[c].players = filterOut(rooms[c].players, s)
              /\ rooms'[c].hostId = rooms[c].hostId
              /\ Len(msgs'[<<c, 1>>]) >= 1
              /\ msgs'[<<c, 1>>][Len(msgs'[<<c, 1>>])] = PlayerLeftMsg(s)
              /\ msgs'[<<c, s>>] = <<>>]_vars

\* C18: every room record has a seat list that contains seat 1, holds only seats
\* 1..4 and has at most 4 entries.
C18_SeatListShape ==
    \A c \in Codes :
        rooms[c].exists =>
            /\ includes(rooms[c].players, 1)
            /\ Range(rooms[c].players) \subseteq Seats
            /\ Len(rooms[c].players) <= 4

\* a full room whose seats were not taken in order: a guest left and the seat was reused
C18_Witness ==
    \E c \in Codes :
        /\ rooms[c].exists
        /\ Len(rooms[c].players) = 4
        /\ rooms[c].players # <<1, 2, 3, 4>>
        /\ resp.op = "join" /\ resp.status = "ok"

\* C19: a send returns success and the message becomes the newest entry of the target
\* mailbox (the older entries keep their order, the oldest is dropped from a queue of
\* 50), whether or not the room exists or the seat is taken; no room record changes.
C19_SendAlwaysAccepted ==
    [][(resp'.op = "send" /\ sendCount' = sendCount + 1) =>
          LET q == msgs[MailboxKey]
              m == Msg("offer", 0, 2, sendCount')
          IN /\ resp'.status = "ok"
             /\ msgs'[MailboxKey] =
                    IF Len(q) < QueueMax THEN Append(q, m) ELSE Append(Tail(q), m)
             /\ rooms' = rooms]_vars

\* a send to a queue of 50 was accepted, for a code that has no room record
C19_Witness ==
    /\ resp.op = "send" /\ resp.status = "ok"
    /\ ~rooms[MailboxKey[1]].exists
    /\ Len(sentLog[MailboxKey]) = QueueMax + 2
    /\ Len(msgs[MailboxKey]) = QueueMax
    /\ msgs[MailboxKey][QueueMax] = Msg("offer", 0, 2, sendCount)

\* ========================================================================
\* More claims about the reconnection controller
\* ========================================================================
\* C20: the attempt counter is zero whenever the socket is open, so the loss of an
\* open socket while in a room schedules the first attempt again: counter 1, 1000 ms.
C20_CounterResetOnOpen ==
    /\ [](ws = "open" => wsReconnectAttempts = 0)
    /\ [][(ws = "connecting" /\ ws' = "open") => wsReconnectAttempts' = 0]_vars
    /\ [][(ws = "open" /\ ws' = "closed" /\ roomCode # "") =>
             /\ wsReconnectAttempts' = 1
             /\ reconnectTimer' = BaseDelay
             /\ delayLog' = <<BaseDelay>>]_vars

\* the socket was lost again after a reconnection that succeeded (rejoin was sent)
C20_Witness ==
    /\ roomCode # "" /\ ws = "closed"
    /\ lastWsSent = "rejoin"
    /\ wsReconnectAttempts = 1
    /\ reconnectTimer = BaseDelay
    /\ attemptsMade = 0

\* C21: when a reconnection succeeds the client sends a rejoin message carrying its
\* room code and its own seat number (1 for the host); it sends no create and no join
\* and waits for no reply to one.
C21_RejoinAfterReconnect ==
    [][(connCtx = "reconnect" /\ ws = "connecting" /\ ws' = "open") =>
          /\ roomCode # ""
          /\ lastWsSent' = "rejoin"
          /\ lastWsData' = WsData(roomCode, myPlayerNum)
          /\ isHost => lastWsData'.playerNum = 1
          /\ awaitingReply' = "none"]_vars

\* a guest on seat 3 has reconnected and announced itself again
C21_Witness ==
    /\ ws = "open" /\ ~isHost /\ myPlayerNum = 3
    /\ lastWsSent = "rejoin"
    /\ lastWsData = WsData("ROOM01", 3)
    /\ wsReconnectAttempts = 0

\* ========================================================================
\* More claims about the negotiation handlers
\* ========================================================================
\* C22: an offer from seat s that arrives while a peer connection for s exists and is
\* not in the stable signaling state is discarded: the connection stays as it is, no
\* answer is sent and no exception escapes the message handler.
C22_LateOfferDiscarded ==
    [][\A p \in Seats :
          (/\ handled'.type = "offer" /\ handled'.seat = p
           /\ peerConnections[p] # "none"
           /\ signalingState(peerConnections[p]) # "stable") =>
              /\ peerConnections'[p] = peerConnections[p]
              /\ sigOut' = sigOut
              /\ ~escaped']_vars

\* C23: an ICE candidate that cannot be applied (it arrives before the remote
\* description is set, it is malformed, or there is no peer connection for the seat)
\* changes no pairing's negotiation state, closes no peer connection, sends nothing
\* and lets no exception escape the message handler.
C23_CandidateFailureTolerated ==
    [][(handled'.type = "ice-candidate" /\ candidateDropped') =>
          /\ peerConnections' = peerConnections
          /\ sigOut' = sigOut
          /\ ~escaped']_vars

\* a candidate arrived for a connection whose offer is out and not yet answered
C23_Witness ==
    /\ handled.type = "ice-candidate" /\ candidateDropped
    /\ peerConnections[handled.seat] = "have-local-offer"
    /\ ~escaped

\* ========================================================================
\* More claims about the frame codec
\* ========================================================================
\* C24: decoding a diff frame that has a pair whose index is outside the raster
\* ignores that pair only: every pixel named by an in-range pair gets the value of the
\* last such pair, every other pixel keeps the retained buffer's value (0 without
\* one), and the result, a raster of the full size, is shown and retained.
C24_OutOfRangePairIgnored ==
    [][(/\ frameData.type = "diff" /\ frameData' = NoFrame
        /\ \E k \in 1..(Len(frameData.data) \div 2) : frameData.data[2 * k - 1] \notin Indices) =>
          LET data == frameData.data
              base == IF recvLast = NoBuffer THEN Blank ELSE recvLast
              naming(i) == {k \in 1..(Len(data) \div 2) : data[2 * k - 1] = i}
              last(i) == CHOOSE k \in naming(i) : \A j \in naming(i) : j <= k
          IN /\ DOMAIN shown' = Indices
             /\ \A i \in Indices :
                   shown'[i] = IF naming(i) # {} THEN data[2 * last(i)] ELSE base[i]
             /\ recvLast' = shown'
             /\ shownType' = "diff"]_vars

\* a frame of two pairs, one of them out of range, was decoded onto a retained buffer
\* and the result shows the pixel of the other pair
C24_Witness ==
    /\ frameData = NoFrame /\ shownType = "diff"
    /\ shownNote.retained /\ shownNote.pairs = 2 /\ shownNote.skipped = 1
    /\ recvLast = shown
    /\ DOMAIN shown = Indices
    /\ \E i \in Indices : shown[i] = 1

\* ========================================================================
\* Claims about the latency measurement
\* ========================================================================
\* C25: getLatency(seat) returns the absent value exactly when the seat has no
\* recorded latency (no pong handled yet, or the channel closed since), and it
\* returns 0 when the recorded latency is 0.
C25_ZeroLatencyIsNotAbsent ==
    got.seat # 0 =>
        /\ got.latency.absent <=> got.seat \notin DOMAIN latencies
        /\ (got.seat \in DOMAIN latencies /\ latencies[got.seat] = 0) =>
               got.latency = Latency(0)

\* C26: a pong that echoes timestamp t and is handled at time t + d records, for the
\* seat of the channel it came on, d / 2 rounded to the nearest integer (a half is
\* rounded up); for d = 40 ms that is 20 ms.
C26_LatencyIsHalfRoundTrip ==
    [][\A p \in PingSeats :
          (p \in DOMAIN pongs /\ p \notin DOMAIN pongs' /\ p \in DOMAIN latencies') =>
              LET d == now - pongs[p]
              IN /\ 2 * latencies'[p] \in {d, d + 1}
                 /\ d = 40 => latencies'[p] = 20
                 /\ \A q \in DOMAIN latencies' \ {p} :
                       q \in DOMAIN latencies /\ latencies'[q] = latencies[q]]_vars

\* a pong came back 40 ms after its ping and getLatency reports 20 ms
C26_Witness ==
    /\ lastPong = [seat |-> 2, age |-> 40]
    /\ 2 \in DOMAIN latencies /\ latencies[2] = 20
    /\ got = [seat |-> 2, latency |-> Latency(20)]

\* ========================================================================
\* Claims about createRoom / joinRoom
\* ========================================================================
\* C27: a createRoom or joinRoom call settles once: with success only when the
\* created / joined reply arrives, with an error only when an error reply arrives,
\* and with a timeout exactly when neither has arrived 5 s after the request was
\* sent (so no call is still waiting later than that); a settled call stays settled.
C27_CallSettlesOnce ==
    /\ []((callResult = "pending" /\ connCtx = "none") => sinceSent <= ReplyTimeout)
    /\ [][(callResult = "pending" /\ callResult' \in {"ok", "error"}) =>
             (awaitingReply # "none" /\ awaitingReply' = "none")]_vars
    /\ [][(callResult = "pending" /\ callResult' = "timeout") =>
             sinceSent = ReplyTimeout]_vars
    /\ [][(callResult \in {"ok", "error", "timeout", "connfail"}) =>
             (callResult' \in {callResult, "pending"})]_vars

\* ========================================================================
\* Claims about the signaling service under concurrent requests
\* ========================================================================
\* C28: once a host leave has deleted the room record of a code, no record for
\* that code exists again until a later create for the code succeeds, also when
\* a join or a guest leave read the record before the deletion and writes it
\* back afterwards.
C28_DeletedRecordStaysDeleted == \A c \in closed : ~rooms[c].exists

\* C29: no message is returned by more than one receive call on its mailbox,
\* whatever the interleaving of the store operations of send (read the queue,
\* append, write the queue) and receive (read the queue, delete the key).
C29_ReturnedAtMostOnce == returnedTwice = {}

\* C30: two joins on the same room that both read the record before either
\* writes it back were given the same seat number and both return success; the
\* write of the second one leaves a stored seat list that holds the seat once.
C30_RacingJoinsShareSeat ==
    /\ [](\A i, j \in Slots :
            (i # j /\ reqs[i].raced /\ reqs[j].raced) =>
                /\ reqs[i].seat = reqs[j].seat
                /\ reqs[i].pc = "done" => reqs[i].status = "ok")
    /\ [][\A i \in Slots :
            (reqs[i].raced /\ reqs[i].pc = "put" /\ reqs'[i].pc = "pushGet") =>
                /\ rooms'[RaceCode].exists
                /\ Count(rooms'[RaceCode].players, reqs[i].seat) = 1]_vars

\* both racing joins have answered success with seat 2, and the list is <<1, 2>>
C30_Witness ==
    \E i, j \in Slots :
        /\ i # j
        /\ reqs[i].raced /\ reqs[j].raced
        /\ reqs[i].pc = "done" /\ reqs[j].pc = "done"
        /\ reqs[i].status = "ok" /\ reqs[j].status = "ok"
        /\ reqs[i].seat = 2 /\ reqs[j].seat = 2
        /\ rooms[RaceCode].players = <<1, 2>>

\* C31: a message accepted by send stays in its mailbox until a receive returns
\* it (the 50-entry bound is never reached here): no step takes a sent message
\* out of a mailbox unless a receive has returned it; two sends whose
\* read-append-write steps interleave both end up in the queue.
C31_SentStaysUntilReturned ==
    [][\A k \in Keys : (Ordinals(msgs[k]) \ Ordinals(msgs'[k])) \subseteq returned']_vars

\* C32: for every guest seat s, the messages the host obtains from its mailbox
\* hold player-joined(s) before any offer or ice-candidate sent by seat s,
\* whatever the interleaving with other guests' joins and sends: a message of
\* seat s in a batch a receive of seat 1 returns is preceded by player-joined(s)
\* in that batch or in an earlier one.
C32_JoinedBeforeSignals ==
    [][\A i \in Slots :
        (reqs[i].op = "poll" /\ reqs[i].player = 1
            /\ reqs[i].pc = "popDelete" /\ reqs'[i].pc = "done") =>
        \A k \in 1..Len(reqs[i].messages) :
            LET m == reqs[i].messages[k]
            IN m.n > 0 =>
                  \/ m.fromPlayer \in seen
                  \/ \E j \in 1..(k - 1) :
                        reqs[i].messages[j] = PlayerJoinedMsg(m.fromPlayer)]_vars

\* ========================================================================
\* Further claims about the signaling service
\* ========================================================================
\* C33: after a host leave completes the room record is deleted and the host's
\* own mailbox (code, seat 1) is empty, even if messages were pending in it.
C33_HostLeavePurgesOwnMailbox ==
    [][\A c \in Codes :
          (resp'.op = "leave" /\ resp'.code = c /\ rooms[c].exists /\ ~rooms'[c].exists) =>
              msgs'[<<c, 1>>] = <<>>]_vars

\* C34: every write of a room record carries a 3600 s expiry and every write of a
\* mailbox queue a shorter one: a room record not written for 3600 s (no join, no
\* leave) no longer exists, a queue not written for 300 s is gone, and from then
\* on a join on the code fails with room-not-found and a create succeeds.
C34_RecordsExpire ==
    /\ [](\A c \in Codes : roomAge[c] >= RoomTtl => ~rooms[c].exists)
    /\ [](\A k \in Keys : queueAge[k] >= QueueTtl => msgs[k] = <<>>)
    /\ [][\A c \in Codes :
            (roomAge[c] >= RoomTtl /\ reqParity' # reqParity /\ resp'.code = c) =>
                /\ resp'.op = "join" => resp'.status = "RoomNotFound"
                /\ resp'.op = "create" => resp'.status = "ok"]_vars

\* ========================================================================
\* Claims about the polling client
\* ========================================================================
\* C35: the polling client handles mailbox messages one at a time in the order
\* the service returned them: while an invocation still holds unhandled messages
\* of an earlier poll, no invocation has started on a message of a later poll.
C35_BatchesHandledInOrder ==
    \A i, j \in PollSlots :
        (/\ callbacks[i].pc = "handle" /\ callbacks[j].pc = "handle"
         /\ callbacks[i].no < callbacks[j].no) =>
            ~callbacks[j].started

\* ========================================================================
\* Claims about the WebSocket client's messages and membership
\* ========================================================================
\* C36: every message received from the signaling server is given to
\* handleWsMessage exactly once, the 'created' / 'joined' reply included.
C36_DispatchedOnce == lastMessage.type # "none" => lastMessage.dispatches = 1

\* C37: after createRoom() / joinRoom() has failed with the 5 s timeout, a reply
\* that arrives later does not make the client a member: roomCode and myPlayerNum
\* stay unset and a socket close starts no reconnection.
C37_LateReplyIgnored ==
    callResult = "timeout" => (roomCode = "" /\ myPlayerNum = 0 /\ reconnectTimer = 0)

\* C38: after the client has processed 'room-closed', a close of the socket
\* schedules no reconnection attempt and no rejoin is sent.
C38_NoReconnectAfterRoomClosed ==
    /\ [][(closedNotice /\ ws \in {"open", "closing"} /\ ws' = "closed") =>
             reconnectTimer' = 0]_vars
    /\ [][(closedNotice /\ ws = "connecting" /\ ws' = "open") =>
             lastWsSent' # "rejoin"]_vars

C40_DisconnectedSocketForgotten ==
    \A w \in disconnected : \A c \in MemCodes :
        memRooms[c].exists =>
            /\ memRooms[c].hostWs # w
            /\ \A n \in 2..4 : memRooms[c].guests[n] # w

====
